---- MODULE Spec2Model ----
(***************************************************************************)
(* Download pipeline of the Madison County title plant: the index store   *)
(* (table index_documents), the queue manager that moves rows through the *)
(* download_status state machine, the per-document worker pipeline of the *)
(* parallel and of the sequential downloader, and the scheduler loops     *)
(* with process kill and restart.                                         *)
(***************************************************************************)
EXTENDS Integers, Sequences, FiniteSets, TLC

(* ---------------------------------------------------------------------- *)
(* Bounds of the model                                                     *)
(* ---------------------------------------------------------------------- *)
NumDocs == 1
NumWorkers == 1
MaxTicks == 1
MaxKills == 1
\* rows and pool threads of the capped parallel run; the cap of stage-0-test
\* ('limit': 20) scaled down to the size of the table
RunDocs == 3
RunWorkers == 2
TestStageLimit == 2
\* rows of the tables fetch_next_batch is called on; books that are routed
QueueDocs == 2
MaxBook == 4000
\* rows of the tables the cleaning pass runs on
CleanDocs == 2

(* ---------------------------------------------------------------------- *)
(* Program constants                                                       *)
(* ---------------------------------------------------------------------- *)
MAX_ATTEMPTS == 5
MAX_ERROR_CHARS == 500
STALE_MINUTES == 30
BATCH_FACTOR == 10
STAGED_BATCH_SIZE == 100
WEEK_MINUTES == 10080
DEFAULT_BATCH_SIZE == 100
\* the download_error texts of the cleaning pass, by their length
INVALID_REASON == 22
NEW_PORTAL_REASON == 47
DUPLICATE_REASON == 34

\* SQL NULL / Python None; every proper value of the model is >= 0
NULL == -1

Ids == 1..NumDocs
\* scheduler process 1 runs parallel_staged_downloader.py, process 2 runs
\* staged_downloader.py, against the same index store
Schedulers == {1, 2}
SchedulerKind(s) == IF s = 1 THEN "parallel" ELSE "staged"

\* one clock step makes every row written before it older than the stale
\* threshold; rows written after it are younger
TickMinutes == STALE_MINUTES + 1
MaxNow == MaxTicks * TickMinutes

\* lengths of the exception messages a failing step raises (str(e))
ErrorLengths == {40, MAX_ERROR_CHARS + 200}

VARIABLES
    index_documents,  \* the index store: id -> row
    now,              \* CURRENT_TIMESTAMP, in minutes
    sched,            \* scheduler process: run position, queue cursor, batch
    task,             \* task[s][id]: position of process_document(doc id)
    archive,          \* ids whose PDF object has been written by upload_file
    kills             \* number of process kills so far

vars == <<index_documents, now, sched, task, archive, kills>>

(* ---------------------------------------------------------------------- *)
(* Index rows                                                              *)
(* ---------------------------------------------------------------------- *)
\* rows as the cleaning pass leaves them for the large stage: distinct
\* (book, page), Mid-portal books, priority 3; a higher id has a lower book
DocBook(id) == 238 + (NumDocs - id)
DocPage(id) == id

Truncate(len) == IF len > MAX_ERROR_CHARS THEN MAX_ERROR_CHARS ELSE len

InitialRow(id, attempts) ==
    [ book |-> DocBook(id),
      page |-> DocPage(id),
      download_priority |-> 3,
      download_status |-> "pending",
      download_attempts |-> attempts,
      download_error |-> IF attempts = 0 THEN NULL ELSE 40,
      gcs_path |-> NULL,
      downloaded_at |-> NULL,
      updated_at |-> 0 ]

(* ---------------------------------------------------------------------- *)
(* Queue manager: the SQL statements as functions table -> table           *)
(* ---------------------------------------------------------------------- *)
\* STAGE_CONFIGS['stage-3-large']: no cap, so fetch_next_batch never takes
\* its "Stage limit reached" return
STAGE_CONFIG ==
    [ limit |-> NULL, priority |-> {3}, book_ranges |-> {<<238, 3971>>} ]

InStage(row) ==
    /\ row.download_priority \in STAGE_CONFIG.priority
    /\ \E r \in STAGE_CONFIG.book_ranges : row.book >= r[1] /\ row.book < r[2]

\* ORDER BY download_priority, book, page
RowBefore(t, a, b) ==
    \/ t[a].download_priority < t[b].download_priority
    \/ /\ t[a].download_priority = t[b].download_priority
       /\ \/ t[a].book < t[b].book
          \/ t[a].book = t[b].book /\ t[a].page < t[b].page
          \/ t[a].book = t[b].book /\ t[a].page = t[b].page /\ a < b

RECURSIVE OrderRows(_, _)
OrderRows(t, S) ==
    IF S = {} THEN <<>>
    ELSE LET first == CHOOSE a \in S : \A b \in S \ {a} : RowBefore(t, a, b)
         IN  <<first>> \o OrderRows(t, S \ {first})

Take(seq, n) == SubSeq(seq, 1, IF Len(seq) < n THEN Len(seq) ELSE n)

\* the rows fetch_next_batch returns, as a sequence of ids
fetch_next_batch(t, last_fetched_id, limit) ==
    LET candidates ==
            { id \in Ids :
                /\ t[id].download_status = "pending"
                /\ InStage(t[id])
                /\ (last_fetched_id # NULL => id > last_fetched_id) }
    IN  Take(OrderRows(t, candidates), limit)

mark_in_progress(t, id, ts) ==
    [t EXCEPT ![id].download_status = "in_progress",
              ![id].download_attempts = @ + 1,
              ![id].updated_at = ts]

\* mark_completed that forgets downloaded_at
mark_completed_without_downloaded_at(t, id, gcs_url, ts) ==
    [t EXCEPT ![id].download_status = "completed",
              ![id].gcs_path = gcs_url,
              ![id].download_error = NULL,
              ![id].updated_at = ts]

mark_completed(t, id, gcs_url, ts) ==
    [t EXCEPT ![id].download_status = "completed",
              ![id].downloaded_at = ts,
              ![id].gcs_path = gcs_url,
              ![id].download_error = NULL,
              ![id].updated_at = ts]

mark_failed(t, id, error_len, retry, ts) ==
    LET attempts == t[id].download_attempts
        status == IF retry /\ attempts < MAX_ATTEMPTS THEN "pending" ELSE "failed"
    IN  [t EXCEPT ![id].download_status = status,
                  ![id].download_error = Truncate(error_len),
                  ![id].updated_at = ts]

mark_skipped(t, id, reason_len, ts) ==
    [t EXCEPT ![id].download_status = "skipped",
              ![id].download_error = Truncate(reason_len),
              ![id].updated_at = ts]

Stale(row, ts) ==
    /\ row.download_status = "in_progress"
    /\ row.updated_at < ts - STALE_MINUTES

\* a stale reset that ignores the age of the row
reset_in_progress_records_any_age(t, ts) ==
    [id \in DOMAIN t |->
        IF t[id].download_status = "in_progress"
        THEN [t[id] EXCEPT !.download_status = "pending", !.updated_at = ts]
        ELSE t[id]]

\* a stale reset that also starts the attempt count over
reset_in_progress_records_clearing_attempts(t, ts) ==
    [id \in DOMAIN t |->
        IF Stale(t[id], ts)
        THEN [t[id] EXCEPT !.download_status = "pending",
                           !.download_attempts = 0,
                           !.updated_at = ts]
        ELSE t[id]]

reset_in_progress_records(t, ts) ==
    [id \in DOMAIN t |->
        IF Stale(t[id], ts)
        THEN [t[id] EXCEPT !.download_status = "pending", !.updated_at = ts]
        ELSE t[id]]

\* the object URI .../{book:04d}-{page:04d}.pdf, as the number bookpage
GcsUrl(id) == DocBook(id) * 10000 + DocPage(id)

(* ---------------------------------------------------------------------- *)
(* Initial state                                                           *)
(* ---------------------------------------------------------------------- *)
\* lease: mark_in_progress returned True; settled: a mark_completed or a
\* mark_failed of this call returned True
NoTask == [pc |-> "none", lease |-> FALSE, settled |-> FALSE]

IdleScheduler == [pc |-> "idle", last_fetched_id |-> NULL, batch |-> <<>>]

\* the store as earlier runs left it: every row pending, never attempted or
\* with four failed attempts behind it; no scheduler process is running
Init ==
    /\ index_documents \in
         { [id \in Ids |-> InitialRow(id, a[id])] :
             a \in [Ids -> {0, MAX_ATTEMPTS - 1}] }
    /\ now = 0
    /\ sched = [s \in Schedulers |-> IdleScheduler]
    /\ task = [s \in Schedulers |-> [id \in Ids |-> NoTask]]
    /\ archive = {}
    /\ kills = 0

(* ---------------------------------------------------------------------- *)
(* Scheduler run: ParallelDownloadManager.run / StagedDownloadManager.run  *)
(* ---------------------------------------------------------------------- *)
BatchLimit(s) ==
    IF SchedulerKind(s) = "parallel" THEN NumWorkers * BATCH_FACTOR
    ELSE STAGED_BATCH_SIZE

\* threads that run process_document at the same time in one process
Capacity(s) == IF SchedulerKind(s) = "parallel" THEN NumWorkers ELSE 1

Running(s) == { id \in Ids : task[s][id].pc \in {"download", "uploaded", "recorded"} }

InBatch(s) == { sched[s].batch[i] : i \in 1..Len(sched[s].batch) }

\* a new process builds a fresh DownloadQueueManager (last_fetched_id = None)
\* and run() first resets stale rows; a psycopg2.Error rolls the reset back
RunStart(s, db_ok) ==
    /\ index_documents' =
         IF db_ok THEN reset_in_progress_records(index_documents, now)
         ELSE index_documents
    /\ sched' = [sched EXCEPT ![s] =
                   [pc |-> "started", last_fetched_id |-> NULL, batch |-> <<>>]]
    /\ UNCHANGED <<now, task, archive, kills>>

Start(s) ==
    /\ sched[s].pc = "idle"
    /\ \E db_ok \in BOOLEAN : RunStart(s, db_ok)

Restart(s) ==
    /\ sched[s].pc = "killed"
    /\ \E db_ok \in BOOLEAN : RunStart(s, db_ok)

\* get_queue_statistics: run() returns when no row at all is pending
CheckPending(s) ==
    /\ sched[s].pc = "started"
    /\ LET pending_count ==
             Cardinality({ id \in Ids :
                             index_documents[id].download_status = "pending" })
       IN  sched' = [sched EXCEPT ![s].pc =
                        IF pending_count = 0 THEN "done" ELSE "fetch"]
    /\ UNCHANGED <<index_documents, now, task, archive, kills>>

\* one turn of the while loop: fetch a batch, leave on an empty one,
\* otherwise hand every document of the batch to process_document
Fetch(s) ==
    /\ sched[s].pc = "fetch"
    /\ LET batch == fetch_next_batch(index_documents,
                                     sched[s].last_fetched_id, BatchLimit(s))
       IN  IF batch = <<>>
           THEN /\ sched' = [sched EXCEPT ![s].pc = "done"]
                /\ UNCHANGED task
           ELSE /\ sched' = [sched EXCEPT
                               ![s].pc = "wait",
                               ![s].last_fetched_id = batch[Len(batch)],
                               ![s].batch = batch]
                /\ task' = [task EXCEPT ![s] =
                              [id \in Ids |->
                                 IF \E i \in 1..Len(batch) : batch[i] = id
                                 THEN [NoTask EXCEPT !.pc = "queued"]
                                 ELSE NoTask]]
    /\ UNCHANGED <<index_documents, now, archive, kills>>

\* every document of the batch has been processed: next turn of the loop
BatchDone(s) ==
    /\ sched[s].pc = "wait"
    /\ \A id \in InBatch(s) : task[s][id].pc = "returned"
    /\ sched' = [sched EXCEPT ![s].pc = "fetch", ![s].batch = <<>>]
    /\ task' = [task EXCEPT ![s] = [id \in Ids |-> NoTask]]
    /\ UNCHANGED <<index_documents, now, archive, kills>>

\* the operating system kills the scheduler process with all its threads
Kill(s) ==
    /\ sched[s].pc \in {"started", "fetch", "wait"}
    /\ kills < MaxKills
    /\ kills' = kills + 1
    /\ sched' = [sched EXCEPT ![s] =
                   [pc |-> "killed", last_fetched_id |-> NULL, batch |-> <<>>]]
    /\ task' = [task EXCEPT ![s] = [id \in Ids |-> NoTask]]
    /\ UNCHANGED <<index_documents, now, archive>>

Tick ==
    /\ now + TickMinutes <= MaxNow
    /\ now' = now + TickMinutes
    /\ UNCHANGED <<index_documents, sched, task, archive, kills>>

(* ---------------------------------------------------------------------- *)
(* Worker: DownloadWorker.process_document (parallel) and                  *)
(* StagedDownloadManager.process_document (staged)                         *)
(* ---------------------------------------------------------------------- *)
\* the pool starts submitted documents in batch order while a thread is free
Runnable(s, id) ==
    /\ sched[s].pc = "wait"
    /\ task[s][id].pc = "queued"
    /\ Cardinality(Running(s)) < Capacity(s)
    /\ \A i, j \in 1..Len(sched[s].batch) :
          (sched[s].batch[j] = id /\ i < j) => task[s][sched[s].batch[i]].pc # "queued"

\* queue.mark_in_progress(doc_id): the returned flag is not looked at
BeginDocument(s, id) ==
    /\ Runnable(s, id)
    /\ \E db_ok \in BOOLEAN :
         /\ index_documents' =
              IF db_ok THEN mark_in_progress(index_documents, id, now)
              ELSE index_documents
         /\ task' = [task EXCEPT ![s][id].pc = "download", ![s][id].lease = db_ok]
    /\ UNCHANGED <<now, sched, archive, kills>>

\* except Exception as e: queue.mark_failed(doc_id, str(e)[:500], retry=True)
HandleException(s, id, error_len, db_ok) ==
    /\ index_documents' =
         IF db_ok
         THEN mark_failed(index_documents, id, Truncate(error_len), TRUE, now)
         ELSE index_documents
    /\ task' = [task EXCEPT ![s][id].pc = "returned",
                            ![s][id].settled = @ \/ db_ok]

\* the download or the upload raises
DownloadFails(s, id) ==
    /\ task[s][id].pc = "download"
    /\ \E error_len \in ErrorLengths, db_ok \in BOOLEAN :
         HandleException(s, id, error_len, db_ok)
    /\ UNCHANGED <<now, sched, archive, kills>>

\* the download succeeds and upload_file stores the object
DownloadAndUpload(s, id) ==
    /\ task[s][id].pc = "download"
    /\ archive' = archive \cup {id}
    /\ task' = [task EXCEPT ![s][id].pc = "uploaded"]
    /\ UNCHANGED <<index_documents, now, sched, kills>>

\* parallel worker: removing the local file raises before mark_completed
CleanupFails(s, id) ==
    /\ SchedulerKind(s) = "parallel"
    /\ task[s][id].pc = "uploaded"
    /\ \E error_len \in ErrorLengths, db_ok \in BOOLEAN :
         HandleException(s, id, error_len, db_ok)
    /\ UNCHANGED <<now, sched, archive, kills>>

\* queue.mark_completed(...): the returned flag is not looked at; the
\* parallel worker returns success, the staged one goes on to its statistics
\* and to removing the local file
Complete(s, id) ==
    /\ task[s][id].pc = "uploaded"
    /\ \E db_ok \in BOOLEAN :
         /\ index_documents' =
              IF db_ok THEN mark_completed(index_documents, id, GcsUrl(id), now)
              ELSE index_documents
         /\ task' = [task EXCEPT
                       ![s][id].pc = IF SchedulerKind(s) = "parallel"
                                     THEN "returned" ELSE "recorded",
                       ![s][id].settled = db_ok]
    /\ UNCHANGED <<now, sched, archive, kills>>

\* staged worker: the steps after mark_completed succeed
FinishDocument(s, id) ==
    /\ SchedulerKind(s) = "staged"
    /\ task[s][id].pc = "recorded"
    /\ task' = [task EXCEPT ![s][id].pc = "returned"]
    /\ UNCHANGED <<index_documents, now, sched, archive, kills>>

\* staged worker: removing the local file raises after mark_completed
PostCompleteFails(s, id) ==
    /\ SchedulerKind(s) = "staged"
    /\ task[s][id].pc = "recorded"
    /\ \E error_len \in ErrorLengths, db_ok \in BOOLEAN :
         HandleException(s, id, error_len, db_ok)
    /\ UNCHANGED <<now, sched, archive, kills>>

(* ---------------------------------------------------------------------- *)
(* Specification                                                           *)
(* ---------------------------------------------------------------------- *)
Next ==
    \/ \E s \in Schedulers : Start(s)
    \/ \E s \in Schedulers : Restart(s)
    \/ \E s \in Schedulers : CheckPending(s)
    \/ \E s \in Schedulers : Fetch(s)
    \/ \E s \in Schedulers : BatchDone(s)
    \/ \E s \in Schedulers : Kill(s)
    \/ Tick
    \/ \E s \in Schedulers, id \in Ids : BeginDocument(s, id)
    \/ \E s \in Schedulers, id \in Ids : DownloadFails(s, id)
    \/ \E s \in Schedulers, id \in Ids : DownloadAndUpload(s, id)
    \/ \E s \in Schedulers, id \in Ids : CleanupFails(s, id)
    \/ \E s \in Schedulers, id \in Ids : Complete(s, id)
    \/ \E s \in Schedulers, id \in Ids : FinishDocument(s, id)
    \/ \E s \in Schedulers, id \in Ids : PostCompleteFails(s, id)

Spec == Init /\ [][Next]_vars

TypeOK ==
    /\ now \in 0..MaxNow
    /\ kills \in 0..MaxKills
    /\ archive \subseteq Ids
    /\ \A id \in Ids :
         index_documents[id].download_status \in
            {"pending", "in_progress", "completed", "failed", "skipped"}

(* ---------------------------------------------------------------------- *)
(* Claims                                                                  *)
(* ---------------------------------------------------------------------- *)
Row(id) == index_documents[id]
RowAfter(id) == index_documents'[id]

\* C1: mark_in_progress(id) is a compare-and-set: it writes the row
\* (status in_progress, download_attempts + 1) only when the row is pending;
\* on a row in any other status it changes nothing.
C1_MarkInProgressIsCompareAndSet ==
    [][\A s \in Schedulers, id \in Ids :
          BeginDocument(s, id) =>
             /\ Row(id).download_status # "pending"
                   => index_documents' = index_documents
             /\ index_documents' # index_documents
                   => /\ RowAfter(id).download_status = "in_progress"
                      /\ RowAfter(id).download_attempts
                            = Row(id).download_attempts + 1]_vars

\* the workers that hold the lease of a record
Holders(id) ==
    { s \in Schedulers :
        task[s][id].lease /\ task[s][id].pc \in {"download", "uploaded"} }

\* C2: at most one worker at a time is between a successful mark_in_progress
\* and its settling mark_completed / mark_failed for the same record id.
C2_MutualExclusion == \A id \in Ids : Cardinality(Holders(id)) <= 1

\* C3: the only status transitions the pipeline performs are
\* pending->in_progress, in_progress->completed, in_progress->failed,
\* in_progress->pending, pending->skipped and failed->pending.
AllowedTransitions ==
    { <<"pending", "in_progress">>, <<"in_progress", "completed">>,
      <<"in_progress", "failed">>, <<"in_progress", "pending">>,
      <<"pending", "skipped">>, <<"failed", "pending">> }

C3_OnlyAllowedTransitions ==
    [][\A id \in Ids :
          RowAfter(id).download_status # Row(id).download_status
             => <<Row(id).download_status, RowAfter(id).download_status>>
                   \in AllowedTransitions]_vars

\* C4: after a kill and a restart, once every run has come to its end, the
\* stale rows have been reset (no row is left in_progress) and every record
\* has been leased at least once, every record has reached completed or
\* failed.
C4_CrashSafety ==
    ( /\ kills > 0
      /\ \A s \in Schedulers : sched[s].pc \in {"idle", "done"}
      /\ \E s \in Schedulers : sched[s].pc = "done"
      /\ \A id \in Ids : Row(id).download_status # "in_progress"
      /\ \A id \in Ids : Row(id).download_attempts > 0 )
    => \A id \in Ids : Row(id).download_status \in {"completed", "failed"}

\* C5: every row with download_status = completed has a non-null gcs_path
\* and a non-null downloaded_at.
C5_CompletedHasPathAndTime ==
    \A id \in Ids :
       Row(id).download_status = "completed"
          => Row(id).gcs_path # NULL /\ Row(id).downloaded_at # NULL

C5_Witness ==
    \E id \in Ids :
       /\ Row(id).download_status = "completed"
       /\ Row(id).gcs_path = GcsUrl(id)
       /\ Row(id).downloaded_at = MaxNow

\* C6: a row whose download_status is not completed has a null gcs_path.
C6_PathOnlyWhenCompleted ==
    \A id \in Ids :
       Row(id).download_status # "completed" => Row(id).gcs_path = NULL

\* C7: download_attempts never decreases; only mark_in_progress changes it,
\* by exactly +1; mark_completed, mark_failed, mark_skipped and the stale
\* reset leave it unchanged.
C7_AttemptsMonotonic ==
    [][\A id \in Ids :
          LET a == Row(id).download_attempts
          IN  /\ RowAfter(id).download_attempts >= a
              /\ RowAfter(id).download_attempts # a
                    => /\ RowAfter(id).download_attempts = a + 1
                       /\ \E s \in Schedulers : BeginDocument(s, id)
              /\ mark_completed(index_documents, id, GcsUrl(id), now)[id]
                    .download_attempts = a
              /\ \A len \in ErrorLengths, retry \in BOOLEAN :
                    /\ mark_failed(index_documents, id, len, retry, now)[id]
                          .download_attempts = a
                    /\ mark_skipped(index_documents, id, len, now)[id]
                          .download_attempts = a
              /\ reset_in_progress_records(index_documents, now)[id]
                    .download_attempts = a]_vars

\* a row leased for its fifth attempt and then settled
\* by mark_failed
C7_Witness ==
    \E id \in Ids :
       /\ Row(id).download_attempts = MAX_ATTEMPTS
       /\ Row(id).download_status = "failed"
       /\ Row(id).updated_at = MaxNow

\* C8: mark_failed puts the row back to pending while download_attempts < 5
\* and to failed otherwise (always failed without retry), so a row that rests
\* in failed has been attempted exactly 5 times and holds an error of at
\* most 500 characters.
C8_FailedAfterFiveAttempts ==
    \A id \in Ids :
       /\ \A len \in ErrorLengths, retry \in BOOLEAN :
             LET r == mark_failed(index_documents, id, len, retry, now)[id]
             IN  /\ r.download_status =
                       IF retry /\ Row(id).download_attempts < MAX_ATTEMPTS
                       THEN "pending" ELSE "failed"
                 /\ r.download_error <= MAX_ERROR_CHARS
       /\ Row(id).download_status = "failed"
             => /\ Row(id).download_attempts = MAX_ATTEMPTS
                /\ Row(id).download_error # NULL
                /\ Row(id).download_error <= MAX_ERROR_CHARS

\* the stale reset of a starting run commits
ResetCommitted(s) ==
    /\ sched[s].pc \in {"idle", "killed"}
    /\ RunStart(s, TRUE)

\* C9: a committed stale reset returns to pending exactly the in_progress
\* rows whose updated_at is older than 30 minutes, leaves every other row as
\* it was, does not touch download_attempts, and leaves no stale in_progress
\* row behind.
C9_ResetStaleExact ==
    [][\A s \in Schedulers :
          ResetCommitted(s) =>
             \A id \in Ids :
                /\ IF /\ Row(id).download_status = "in_progress"
                      /\ now - Row(id).updated_at > STALE_MINUTES
                   THEN /\ RowAfter(id).download_status = "pending"
                        /\ RowAfter(id) =
                              [Row(id) EXCEPT !.download_status = "pending",
                                              !.updated_at = now]
                   ELSE RowAfter(id) = Row(id)
                /\ RowAfter(id).download_attempts = Row(id).download_attempts
                /\ ~ ( /\ RowAfter(id).download_status = "in_progress"
                       /\ now' - RowAfter(id).updated_at > STALE_MINUTES )]_vars

\* a row that was attempted and is pending again with no error written:
\* only the stale reset puts a row there
C9_Witness ==
    \E id \in Ids :
       /\ Row(id).download_status = "pending"
       /\ Row(id).download_attempts = 1
       /\ Row(id).download_error = NULL
       /\ Row(id).updated_at = MaxNow

\* C10: within one worker the row is in_progress (mark_in_progress has
\* succeeded) before the portal fetch starts, and when process_document has
\* returned the worker has settled the row (a mark_completed or mark_failed
\* of this call has been applied).
C10_OrderedAndSettled ==
    \A s \in Schedulers, id \in Ids :
       /\ task[s][id].pc \in {"download", "uploaded", "recorded"}
             => task[s][id].lease
       /\ task[s][id].pc = "returned" => task[s][id].settled

\* C11: a worker whose mark_in_progress on a record did not succeed skips the
\* record: from there on it writes no object to the archive and changes no
\* row of the index store (no mark_completed, mark_failed or mark_skipped),
\* and the call returns.
C11_SkipWithoutLease ==
    [][\A s \in Schedulers, id \in Ids :
          ( /\ task[s][id].pc = "download"
            /\ ~ task[s][id].lease
            /\ task'[s][id].pc \notin {"download", "none"} )
          => /\ archive' = archive
             /\ index_documents' = index_documents
             /\ task'[s][id].pc = "returned"]_vars

(* ---------------------------------------------------------------------- *)
(* Portal routing and stage configuration                                  *)
(* ---------------------------------------------------------------------- *)
\* a router whose Mid range ends one book early
determine_portal_mid_ends_early(book) ==
    IF book = NULL THEN "TypeError"
    ELSE IF book < 238 THEN "historical"
    ELSE IF book >= 238 /\ book < 3971 THEN "mid"
    ELSE "new"

\* determine_portal: comparing None with an int raises TypeError; the final
\* else branch (ValueError) is taken by no integer
determine_portal(book) ==
    IF book = NULL THEN "TypeError"
    ELSE IF book < 238 THEN "historical"
    ELSE IF book >= 238 /\ book < 3972 THEN "mid"
    ELSE IF book >= 3972 THEN "new"
    ELSE "ValueError"

StageNames ==
    {"stage-0-test", "stage-1-small", "stage-2-medium", "stage-3-large",
     "stage-4-retry"}

\* STAGE_CONFIGS; a filter that is None or absent is the empty set, a limit
\* that is None is NULL. The cap of stage-0-test is TestStageLimit.
STAGE_CONFIGS ==
    [ stage \in StageNames |->
        CASE stage = "stage-0-test" ->
               [ limit |-> TestStageLimit, priority |-> {},
                 book_ranges |-> {<<1, 50>>, <<238, 300>>} ]
          [] stage = "stage-1-small" ->
               [ limit |-> 2000, priority |-> {1, 2},
                 book_ranges |-> {<<1, 50>>, <<238, 300>>} ]
          [] stage = "stage-2-medium" ->
               [ limit |-> 50000, priority |-> {1, 2}, book_ranges |-> {} ]
          [] stage = "stage-3-large" ->
               [ limit |-> NULL, priority |-> {3},
                 book_ranges |-> {<<238, 3971>>} ]
          [] stage = "stage-4-retry" ->
               [ limit |-> NULL, priority |-> {}, book_ranges |-> {} ] ]

\* a WHERE clause without the status condition
WhereClause_any_status(config, t, id, last_fetched_id) ==
    /\ config.priority # {}
          => t[id].download_priority \in config.priority
    /\ config.book_ranges # {}
          => /\ t[id].book # NULL
             /\ \E r \in config.book_ranges :
                   t[id].book >= r[1] /\ t[id].book < r[2]
    /\ (last_fetched_id # NULL /\ last_fetched_id # 0) => id > last_fetched_id

\* the WHERE clause fetch_next_batch builds; a comparison with NULL is not
\* true in SQL
WhereClause(config, t, id, last_fetched_id) ==
    /\ t[id].download_status = "pending"
    /\ config.priority # {}
          => t[id].download_priority \in config.priority
    /\ config.book_ranges # {}
          => /\ t[id].book # NULL
             /\ \E r \in config.book_ranges :
                   t[id].book >= r[1] /\ t[id].book < r[2]
    /\ (last_fetched_id # NULL /\ last_fetched_id # 0) => id > last_fetched_id

\* ascending order of one column, NULLS LAST
SqlLess(a, b) == a # NULL /\ (b = NULL \/ a < b)

\* ORDER BY download_priority, book, page: row a sorts strictly before row b
OrderedBefore(t, a, b) ==
    \/ SqlLess(t[a].download_priority, t[b].download_priority)
    \/ /\ t[a].download_priority = t[b].download_priority
       /\ \/ SqlLess(t[a].book, t[b].book)
          \/ t[a].book = t[b].book /\ SqlLess(t[a].page, t[b].page)

\* the orders in which the database may return the rows S: rows that tie in
\* the ORDER BY columns come in any order
SortedOrders(t, S) ==
    { seq \in [1..Cardinality(S) -> S] :
        /\ \A i, j \in 1..Cardinality(S) : i # j => seq[i] # seq[j]
        /\ \A i, j \in 1..Cardinality(S) :
              i < j => ~ OrderedBefore(t, seq[j], seq[i]) }

\* rows counted against the cap of a capped stage
Processed(t, ts) ==
    Cardinality({ id \in DOMAIN t :
                    /\ t[id].download_status \in {"completed", "in_progress"}
                    /\ t[id].updated_at > ts - WEEK_MINUTES })

\* the batches fetch_next_batch(limit) may return for a stage: sequences of
\* ids; limit NULL or 0 stands for the manager's batch_size
FetchBatches(config, t, last_fetched_id, limit, batch_size, ts) ==
    IF config.limit # NULL /\ config.limit # 0
          /\ Processed(t, ts) >= config.limit
    THEN { <<>> }
    ELSE LET candidates ==
                 { id \in DOMAIN t : WhereClause(config, t, id, last_fetched_id) }
             n == IF limit = NULL \/ limit = 0 THEN batch_size ELSE limit
         IN  { Take(seq, n) : seq \in SortedOrders(t, candidates) }

(* ---------------------------------------------------------------------- *)
(* One run of the parallel downloader over a table of RunDocs rows:        *)
(* ParallelDownloadManager.run with its thread pool, the futures of a      *)
(* batch, the DownloadWorker objects and the stage cap                     *)
(* ---------------------------------------------------------------------- *)
RunIds == 1..RunDocs
RunStages == {"stage-0-test", "stage-4-retry"}
\* an absent book, a Historical book and a Mid book of the test ranges
RunBooks == {NULL, 1, 238}

\* a pending row with four failed attempts behind it; a row without a book
\* has not been through the cleaning pass and has no priority
RunRow(id, book) ==
    [ book |-> book,
      page |-> id,
      download_priority |->
          IF book = NULL THEN NULL ELSE IF book < 238 THEN 2 ELSE 3,
      download_status |-> "pending",
      download_attempts |-> MAX_ATTEMPTS - 1,
      download_error |-> 40,
      gcs_path |-> NULL,
      downloaded_at |-> NULL,
      updated_at |-> 0 ]

\* worker: index of the DownloadWorker object the future was submitted on
NoFuture == [pc |-> "none", worker |-> 0, lease |-> FALSE, settled |-> FALSE]

RunInit ==
    /\ index_documents \in
         { [id \in RunIds |-> RunRow(id, b[id])] : b \in [RunIds -> RunBooks] }
    /\ now = 0
    /\ sched \in
         { [ pc |-> "idle", stage |-> stage, last_fetched_id |-> NULL,
             batch |-> <<>>, document_count |-> 0, shutdown |-> FALSE,
             handed |-> 0 ] : stage \in RunStages }
    /\ task = [id \in RunIds |-> NoFuture]
    /\ archive = {}
    /\ kills = 0

RunConfig == STAGE_CONFIGS[sched.stage]

RunBatch == { sched.batch[i] : i \in 1..Len(sched.batch) }

\* run(): stale reset, pending count, confirmation prompt
run_start ==
    /\ sched.pc = "idle"
    /\ \E db_ok \in BOOLEAN, confirmed \in BOOLEAN :
         LET t == IF db_ok THEN reset_in_progress_records(index_documents, now)
                  ELSE index_documents
             pending_count ==
                 Cardinality({ id \in RunIds : t[id].download_status = "pending" })
         IN  /\ index_documents' = t
             /\ sched' = [sched EXCEPT !.pc =
                            IF pending_count = 0 \/ ~ confirmed
                            THEN "done" ELSE "fetch"]
    /\ UNCHANGED <<now, task, archive, kills>>

\* one turn of the while loop: fetch_next_batch and the submit loop; every
\* document of the batch is submitted on workers[document_count % num_workers]
\* and document_count does not change during the loop; submit on a pool that
\* has been shut down raises RuntimeError, which ends run()
run_fetch ==
    /\ sched.pc = "fetch"
    /\ \E batch \in FetchBatches(RunConfig, index_documents,
                                 sched.last_fetched_id,
                                 RunWorkers * BATCH_FACTOR,
                                 RunWorkers * BATCH_FACTOR, now) :
         IF batch = <<>>
         THEN /\ sched' = [sched EXCEPT !.pc = "done", !.batch = <<>>]
              /\ task' = [id \in RunIds |-> NoFuture]
         ELSE IF sched.shutdown
         THEN /\ sched' = [sched EXCEPT !.pc = "crashed", !.batch = <<>>,
                                       !.last_fetched_id = batch[Len(batch)]]
              /\ task' = [id \in RunIds |-> NoFuture]
         ELSE /\ sched' = [sched EXCEPT
                             !.pc = "wait",
                             !.last_fetched_id = batch[Len(batch)],
                             !.batch = batch,
                             !.handed = @ + Len(batch)]
              /\ task' = [id \in RunIds |->
                            IF \E i \in 1..Len(batch) : batch[i] = id
                            THEN [NoFuture EXCEPT
                                    !.pc = "queued",
                                    !.worker = sched.document_count % RunWorkers]
                            ELSE NoFuture]
    /\ UNCHANGED <<index_documents, now, archive, kills>>

\* the pool starts the futures in submission order while a thread is free
FutureRunnable(id) ==
    /\ task[id].pc = "queued"
    /\ Cardinality({ d \in RunIds : task[d].pc = "running" }) < RunWorkers
    /\ \A i, j \in 1..Len(sched.batch) :
          (sched.batch[j] = id /\ i < j) => task[sched.batch[i]].pc # "queued"

\* process_document up to the download: determine_portal(doc['book']) stands
\* before the try, so its TypeError leaves process_document and is kept in
\* the future; otherwise mark_in_progress, whose flag is not looked at
process_document_begin(id) ==
    /\ FutureRunnable(id)
    /\ IF determine_portal(index_documents[id].book) \in {"TypeError", "ValueError"}
       THEN /\ task' = [task EXCEPT ![id].pc = "raised"]
            /\ UNCHANGED index_documents
       ELSE \E db_ok \in BOOLEAN :
              /\ index_documents' =
                   IF db_ok THEN mark_in_progress(index_documents, id, now)
                   ELSE index_documents
              /\ task' = [task EXCEPT ![id].pc = "running", ![id].lease = db_ok]
    /\ UNCHANGED <<now, sched, archive, kills>>

\* download, upload, unlink and mark_completed; returns (True, None, ...)
process_document_succeeds(id) ==
    /\ task[id].pc = "running"
    /\ \E db_ok \in BOOLEAN :
         /\ index_documents' =
              IF db_ok
              THEN mark_completed(index_documents, id,
                                  index_documents[id].book * 10000
                                     + index_documents[id].page, now)
              ELSE index_documents
         /\ task' = [task EXCEPT ![id].pc = "returned", ![id].settled = db_ok]
    /\ archive' = archive \cup {id}
    /\ UNCHANGED <<now, sched, kills>>

\* a step inside the try raises, before or after the upload; the except
\* branch calls mark_failed inside its own try and returns (False, ...)
process_document_fails(id) ==
    /\ task[id].pc = "running"
    /\ \E error_len \in ErrorLengths, db_ok \in BOOLEAN, uploaded \in BOOLEAN :
         /\ index_documents' =
              IF db_ok
              THEN mark_failed(index_documents, id, Truncate(error_len), TRUE, now)
              ELSE index_documents
         /\ task' = [task EXCEPT ![id].pc = "returned", ![id].settled = db_ok]
         /\ archive' = IF uploaded THEN archive \cup {id} ELSE archive
    /\ UNCHANGED <<now, sched, kills>>

\* as_completed hands over a finished future: future.result() returns, the
\* statistics are recorded, document_count += 1; at the stage cap
\* executor.shutdown(wait=True) is called before the break
collect_result(id) ==
    /\ sched.pc = "wait"
    /\ task[id].pc = "returned"
    /\ task' = [task EXCEPT ![id].pc = "counted"]
    /\ LET count == sched.document_count + 1
       IN  sched' = [sched EXCEPT
                       !.document_count = count,
                       !.pc = IF /\ RunConfig.limit # NULL
                                 /\ RunConfig.limit # 0
                                 /\ count >= RunConfig.limit
                              THEN "shutdown" ELSE "wait"]
    /\ UNCHANGED <<index_documents, now, archive, kills>>

\* future.result() re-raises the exception process_document left with: it
\* leaves the loops and run(); leaving the with block waits for the pool
collect_exception(id) ==
    /\ sched.pc = "wait"
    /\ task[id].pc = "raised"
    /\ sched' = [sched EXCEPT !.pc = "crashed"]
    /\ UNCHANGED <<index_documents, now, task, archive, kills>>

\* shutdown(wait=True) returns once every submitted future has run; the break
\* leaves the for loop over the futures, not the while loop
shutdown_returns ==
    /\ sched.pc = "shutdown"
    /\ \A id \in RunBatch : task[id].pc \in {"returned", "raised", "counted"}
    /\ sched' = [sched EXCEPT !.pc = "fetch", !.shutdown = TRUE]
    /\ UNCHANGED <<index_documents, now, task, archive, kills>>

\* every future of the batch has been handed over: next turn of the loop
batch_collected ==
    /\ sched.pc = "wait"
    /\ \A id \in RunBatch : task[id].pc = "counted"
    /\ sched' = [sched EXCEPT !.pc = "fetch"]
    /\ UNCHANGED <<index_documents, now, task, archive, kills>>

RunNext ==
    \/ run_start
    \/ run_fetch
    \/ \E id \in RunIds : process_document_begin(id)
    \/ \E id \in RunIds : process_document_succeeds(id)
    \/ \E id \in RunIds : process_document_fails(id)
    \/ \E id \in RunIds : collect_result(id)
    \/ \E id \in RunIds : collect_exception(id)
    \/ shutdown_returns
    \/ batch_collected

SpecRun == RunInit /\ [][RunNext]_vars

\* C12: every failure raised while a worker processes a record is caught
\* inside process_document and written to the record by mark_failed (or
\* mark_skipped): no future ends with an exception, the scheduler loop is
\* never left by one, and a call that has returned has settled its row.
C12_FailuresCaughtAndRecorded ==
    /\ sched.pc # "crashed"
    /\ \A id \in RunIds :
          /\ task[id].pc # "raised"
          /\ task[id].pc \in {"returned", "counted"} => task[id].settled

\* C13: at any instant each DownloadWorker object is executing
\* process_document for at most one record.
C13_WorkerNotConcurrent ==
    \A w \in 0..(RunWorkers - 1) :
       Cardinality({ id \in RunIds :
                       task[id].pc = "running" /\ task[id].worker = w }) <= 1

\* C14: in a run of a stage with a finite cap C at most C records are handed
\* to workers, and once C completions have been counted no further batch is
\* fetched: after the pool has been shut down the run is over.
C14_CapBoundsHandedRecords ==
    (RunConfig.limit # NULL)
       => /\ sched.handed <= RunConfig.limit
          /\ sched.shutdown => sched.pc \in {"done"}

(* ---------------------------------------------------------------------- *)
(* fetch_next_batch as a function of the table, the stage, the limit and   *)
(* the cursor: one call on every table of QueueDocs rows                   *)
(* ---------------------------------------------------------------------- *)
QueueIds == 1..QueueDocs
\* (download_status, download_attempts) of a row: never attempted, failed
\* with attempts left, failed for good
QueueStates == { <<"pending", 0>>, <<"failed", MAX_ATTEMPTS - 1>>,
                 <<"failed", MAX_ATTEMPTS>> }
QueuePriorities == {NULL, 2, 3}
\* the books on both sides of the two portal boundaries
QueueBooks == {237, 238, 3971, 3972}
\* limit argument: None (the manager's batch_size) or a number of rows
QueueLimits == {NULL} \cup (1..(QueueDocs - 1))
\* last_fetched_id of the manager before the call
QueueCursors == {NULL} \cup (1..(QueueDocs - 1))

\* pages run against the ids, so that ORDER BY page is not the id order
QueueRow(id, state, priority, book) ==
    [ book |-> book,
      page |-> QueueDocs + 1 - id,
      download_priority |-> priority,
      download_status |-> state[1],
      download_attempts |-> state[2],
      download_error |-> IF state[2] = 0 THEN NULL ELSE 40,
      gcs_path |-> NULL,
      downloaded_at |-> NULL,
      updated_at |-> 0 ]

QueueInit ==
    /\ index_documents \in
         { [id \in QueueIds |-> QueueRow(id, st[id], pr[id], bk[id])] :
             st \in [QueueIds -> QueueStates],
             pr \in [QueueIds -> QueuePriorities],
             bk \in [QueueIds -> QueueBooks] }
    /\ now = 0
    /\ sched = [pc |-> "idle"]
    /\ task = <<>>
    /\ archive = {}
    /\ kills = 0

\* DownloadQueueManager(conn, stage).fetch_next_batch(limit) with the
\* manager's cursor at last_fetched_id; the call and its inputs are kept
\* with the returned batch and the cursor the call leaves behind
fetch_call ==
    /\ sched.pc = "idle"
    /\ \E stage \in StageNames, limit \in QueueLimits, cursor \in QueueCursors :
         \E batch \in FetchBatches(STAGE_CONFIGS[stage], index_documents,
                                   cursor, limit, DEFAULT_BATCH_SIZE, now) :
            sched' = [ pc |-> "returned", stage |-> stage, limit |-> limit,
                       cursor |-> cursor, batch |-> batch,
                       last_fetched_id |->
                           IF batch # <<>> THEN batch[Len(batch)] ELSE cursor ]
    /\ UNCHANGED <<index_documents, now, task, archive, kills>>

QueueNext == fetch_call

SpecQueue == QueueInit /\ [][QueueNext]_vars

(* ---------------------------------------------------------------------- *)
(* determine_portal on every book of 1..MaxBook                            *)
(* ---------------------------------------------------------------------- *)
RouteBooks == 1..MaxBook

RouteInit ==
    /\ index_documents = <<>>
    /\ now = 0
    /\ sched = [pc |-> "idle"]
    /\ task = <<>>
    /\ archive = {}
    /\ kills = 0

route_call ==
    /\ sched.pc = "idle"
    /\ \E book \in RouteBooks :
         sched' = [pc |-> "routed", book |-> book,
                   portal |-> determine_portal(book)]
    /\ UNCHANGED <<index_documents, now, task, archive, kills>>

RouteNext == route_call

SpecRoute == RouteInit /\ [][RouteNext]_vars

\* the configured priority set and book ranges of a stage; ascending order
\* of the ORDER BY columns with NULLs last
SatisfiesStage(stage, row) ==
    /\ STAGE_CONFIGS[stage].priority # {}
          => row.download_priority \in STAGE_CONFIGS[stage].priority
    /\ STAGE_CONFIGS[stage].book_ranges # {}
          => \E r \in STAGE_CONFIGS[stage].book_ranges :
                row.book >= r[1] /\ row.book < r[2]

ColumnLeq(a, b) == b = NULL \/ (a # NULL /\ a <= b)

InOrder(r1, r2) ==
    IF r1.download_priority # r2.download_priority
    THEN ColumnLeq(r1.download_priority, r2.download_priority)
    ELSE IF r1.book # r2.book THEN ColumnLeq(r1.book, r2.book)
    ELSE ColumnLeq(r1.page, r2.page)

\* C15: fetch_next_batch(stage, limit) returns only rows that are pending and
\* satisfy the stage's priority set and book ranges, in ascending
\* (priority, book, page) order, at most limit of them, and changes no row
\* of the index store.
C15_FetchReturnsOrderedPendingRows ==
    [][(sched.pc = "idle" /\ sched'.pc = "returned") =>
          LET batch == sched'.batch
          IN  /\ \A i \in 1..Len(batch) :
                    /\ index_documents[batch[i]].download_status = "pending"
                    /\ SatisfiesStage(sched'.stage, index_documents[batch[i]])
              /\ \A i, j \in 1..Len(batch) :
                    i < j => /\ batch[i] # batch[j]
                             /\ InOrder(index_documents[batch[i]],
                                        index_documents[batch[j]])
              /\ sched'.limit # NULL => Len(batch) <= sched'.limit
              /\ index_documents' = index_documents]_vars

\* a call with limit 1 on a table whose two rows both qualify: the row with
\* the lower page is returned, although its id is the higher one
C15_Witness ==
    /\ sched.pc = "returned"
    /\ sched.stage = "stage-2-medium"
    /\ sched.limit = 1
    /\ sched.cursor = NULL
    /\ sched.batch = <<QueueDocs>>
    /\ \A id \in QueueIds :
          /\ index_documents[id].download_status = "pending"
          /\ index_documents[id].download_priority = 2
          /\ index_documents[id].book = 3971

\* C16: the large stage selects exactly the pending rows with priority = 3
\* and 238 <= book < 3972 (book 3971 included, book 3972 excluded).
C16_LargeStageSelectsMidBooks ==
    ( /\ sched.pc = "returned"
      /\ sched.stage = "stage-3-large"
      /\ sched.limit = NULL
      /\ sched.cursor = NULL )
    => { sched.batch[i] : i \in 1..Len(sched.batch) } =
          { id \in QueueIds :
              /\ index_documents[id].download_status = "pending"
              /\ index_documents[id].download_priority = 3
              /\ index_documents[id].book >= 238
              /\ index_documents[id].book < 3972 }

\* C17: the retry-failed stage selects exactly the rows with status = failed
\* and download_attempts < 5, and no pending row that never failed.
C17_RetryStageSelectsFailedRows ==
    ( /\ sched.pc = "returned"
      /\ sched.stage = "stage-4-retry"
      /\ sched.limit = NULL
      /\ sched.cursor = NULL )
    => { sched.batch[i] : i \in 1..Len(sched.batch) } =
          { id \in QueueIds :
              /\ index_documents[id].download_status = "failed"
              /\ index_documents[id].download_attempts < 5 }

\* C18: for every book >= 1 the router returns exactly one portal:
\* Historical for book < 238, Mid for 238 <= book < 3972, New for
\* book >= 3972.
C18_RouterTotal ==
    sched.pc = "routed" =>
       /\ sched.portal \in {"historical", "mid", "new"}
       /\ sched.portal = "historical" <=> sched.book < 238
       /\ sched.portal = "mid" <=> (238 <= sched.book /\ sched.book < 3972)
       /\ sched.portal = "new" <=> sched.book >= 3972
       /\ sched.book = 237 => sched.portal = "historical"
       /\ sched.book = 238 => sched.portal = "mid"
       /\ sched.book = 3971 => sched.portal = "mid"
       /\ sched.book = 3972 => sched.portal = "new"

\* the last Mid book has been routed
C18_Witness ==
    /\ sched.pc = "routed"
    /\ sched.book = 3971
    /\ sched.portal = "mid"

(* ---------------------------------------------------------------------- *)
(* The cleaning pass: clean_index_data.py, its four UPDATE statements as   *)
(* functions table -> table, run in the order of main()                    *)
(* ---------------------------------------------------------------------- *)
CleanIds == 1..CleanDocs
\* (book, page): absent book, book 0, absent page, page 0, a Mid book, the
\* first New book
CleanKeys == { <<NULL, 1>>, <<0, 1>>, <<238, NULL>>, <<238, 0>>, <<238, 1>>,
               <<3972, 1>> }
CleanSources == {"DuProcess", "Historical"}
\* (file_date, import_date)
CleanDates == { <<1, 1>>, <<1, 2>>, <<NULL, 1>> }
CleanStatuses == {"pending", "completed"}

CleanRow(key, source, dates, status) ==
    [ book |-> key[1],
      page |-> key[2],
      source |-> source,
      file_date |-> dates[1],
      import_date |-> dates[2],
      will |-> FALSE,
      download_priority |-> NULL,
      download_status |-> status,
      download_attempts |-> IF status = "pending" THEN 0 ELSE 1,
      download_error |-> NULL,
      gcs_path |-> IF status = "completed" THEN key[1] * 10000 + key[2] ELSE NULL,
      downloaded_at |-> IF status = "completed" THEN 0 ELSE NULL,
      updated_at |-> 0 ]

\* mark_invalid_records that forgets the rows without a page
mark_invalid_records_book_only(t, ts) ==
    [id \in DOMAIN t |->
        IF /\ t[id].download_status = "pending"
           /\ (t[id].book = NULL \/ t[id].book <= 0)
        THEN [t[id] EXCEPT !.download_status = "skipped",
                           !.download_error = INVALID_REASON,
                           !.updated_at = ts]
        ELSE t[id]]

mark_invalid_records(t, ts) ==
    [id \in DOMAIN t |->
        IF /\ t[id].download_status = "pending"
           /\ \/ t[id].book = NULL
              \/ t[id].page = NULL
              \/ t[id].book <= 0
              \/ t[id].page <= 0
        THEN [t[id] EXCEPT !.download_status = "skipped",
                           !.download_error = INVALID_REASON,
                           !.updated_at = ts]
        ELSE t[id]]

exclude_new_portal_books(t, ts) ==
    [id \in DOMAIN t |->
        IF /\ t[id].download_status = "pending"
           /\ t[id].book # NULL
           /\ t[id].book >= 3972
        THEN [t[id] EXCEPT !.download_status = "skipped",
                           !.download_error = NEW_PORTAL_REASON,
                           !.updated_at = ts]
        ELSE t[id]]

\* PARTITION BY book, page, source (NULLs fall into one partition)
SameGroup(t, a, b) ==
    /\ t[a].book = t[b].book
    /\ t[a].page = t[b].page
    /\ t[a].source = t[b].source

\* ORDER BY file_date NULLS LAST, import_date: a strictly before b
RankedBefore(t, a, b) ==
    \/ SqlLess(t[a].file_date, t[b].file_date)
    \/ /\ t[a].file_date = t[b].file_date
       /\ SqlLess(t[a].import_date, t[b].import_date)

PendingIds(t) == { id \in DOMAIN t : t[id].download_status = "pending" }

\* the sets of rows ROW_NUMBER() may number 1: one pending row of every
\* partition, with no pending row of the partition ranked before it; rows
\* that tie in both dates are numbered in any order
FirstRows(t) ==
    { K \in SUBSET PendingIds(t) :
        /\ \A id \in PendingIds(t) :
              Cardinality({ k \in K : SameGroup(t, k, id) }) = 1
        /\ \A k \in K :
              \A id \in PendingIds(t) :
                 SameGroup(t, k, id) => ~ RankedBefore(t, id, k) }

\* a deduplication that partitions by book and page only
deduplicate_records_across_sources(t, ts) ==
    LET same(a, b) == t[a].book = t[b].book /\ t[a].page = t[b].page
        firsts == { K \in SUBSET PendingIds(t) :
                      /\ \A id \in PendingIds(t) :
                            Cardinality({ k \in K : same(k, id) }) = 1
                      /\ \A k \in K :
                            \A id \in PendingIds(t) :
                               same(k, id) => ~ RankedBefore(t, id, k) }
    IN  { [id \in DOMAIN t |->
             IF id \in PendingIds(t) /\ id \notin K
             THEN [t[id] EXCEPT !.download_status = "skipped",
                                !.download_error = DUPLICATE_REASON,
                                !.updated_at = ts]
             ELSE t[id]] : K \in firsts }

\* the tables the UPDATE of deduplicate_records may leave: every pending row
\* numbered above 1 becomes skipped
deduplicate_records(t, ts) ==
    { [id \in DOMAIN t |->
         IF id \in PendingIds(t) /\ id \notin K
         THEN [t[id] EXCEPT !.download_status = "skipped",
                            !.download_error = DUPLICATE_REASON,
                            !.updated_at = ts]
         ELSE t[id]] : K \in FirstRows(t) }

\* one of the four UPDATEs of assign_download_priorities: the rows of
\* matching that are pending get the priority
SetPriority(t, priority, matching, ts) ==
    [id \in DOMAIN t |->
        IF t[id].download_status = "pending" /\ id \in matching
        THEN [t[id] EXCEPT !.download_priority = priority, !.updated_at = ts]
        ELSE t[id]]

\* an assignment whose second rule reaches up to book 238
assign_download_priorities_historical_through_238(t, ts) ==
    LET t1 == SetPriority(t, 1, { id \in DOMAIN t : t[id].will }, ts)
        t2 == SetPriority(t1, 2,
                          { id \in DOMAIN t :
                              /\ t1[id].download_priority = NULL
                              /\ t1[id].book # NULL /\ t1[id].book <= 238 }, ts)
        t3 == SetPriority(t2, 3,
                          { id \in DOMAIN t :
                              /\ t2[id].download_priority = NULL
                              /\ t2[id].book # NULL
                              /\ t2[id].book >= 238 /\ t2[id].book < 3972 }, ts)
    IN  SetPriority(t3, 4,
                    { id \in DOMAIN t : t3[id].download_priority = NULL }, ts)

assign_download_priorities(t, ts) ==
    LET t1 == SetPriority(t, 1, { id \in DOMAIN t : t[id].will }, ts)
        t2 == SetPriority(t1, 2,
                          { id \in DOMAIN t :
                              /\ t1[id].download_priority = NULL
                              /\ t1[id].book # NULL /\ t1[id].book < 238 }, ts)
        t3 == SetPriority(t2, 3,
                          { id \in DOMAIN t :
                              /\ t2[id].download_priority = NULL
                              /\ t2[id].book # NULL
                              /\ t2[id].book >= 238 /\ t2[id].book < 3972 }, ts)
    IN  SetPriority(t3, 4,
                    { id \in DOMAIN t : t3[id].download_priority = NULL }, ts)

\* before: the table as the pass found it
CleanInit ==
    /\ index_documents \in
         { [id \in CleanIds |-> CleanRow(k[id], src[id], d[id], st[id])] :
             k \in [CleanIds -> CleanKeys],
             src \in [CleanIds -> CleanSources],
             d \in [CleanIds -> CleanDates],
             st \in [CleanIds -> CleanStatuses] }
    /\ now = 1
    /\ sched = [pc |-> "invalid"]
    /\ task = <<>>
    /\ archive = {}
    /\ kills = 0

clean_mark_invalid ==
    /\ sched.pc = "invalid"
    /\ index_documents' = mark_invalid_records(index_documents, now)
    /\ sched' = [pc |-> "exclude", before |-> index_documents]
    /\ UNCHANGED <<now, task, archive, kills>>

clean_exclude_new ==
    /\ sched.pc = "exclude"
    /\ index_documents' = exclude_new_portal_books(index_documents, now)
    /\ sched' = [sched EXCEPT !.pc = "deduplicate"]
    /\ UNCHANGED <<now, task, archive, kills>>

clean_deduplicate ==
    /\ sched.pc = "deduplicate"
    /\ index_documents' \in deduplicate_records(index_documents, now)
    /\ sched' = [sched EXCEPT !.pc = "priorities"]
    /\ UNCHANGED <<now, task, archive, kills>>

clean_assign_priorities ==
    /\ sched.pc = "priorities"
    /\ index_documents' = assign_download_priorities(index_documents, now)
    /\ sched' = [sched EXCEPT !.pc = "cleaned"]
    /\ UNCHANGED <<now, task, archive, kills>>

CleanNext ==
    \/ clean_mark_invalid
    \/ clean_exclude_new
    \/ clean_deduplicate
    \/ clean_assign_priorities

SpecClean == CleanInit /\ [][CleanNext]_vars

\* the rows the cleaning pass takes out of the queue
InvalidKey(row) ==
    \/ row.book = NULL
    \/ row.page = NULL
    \/ row.book <= 0
    \/ row.page <= 0

ExcludedRow(row) ==
    InvalidKey(row) \/ determine_portal(row.book) = "new"

\* C19: after the cleaning pass no pending row has a null or non-positive
\* book or page and no pending row routes to the New portal; every such row
\* the pass found pending is skipped with a non-null download_error, and no
\* stage's fetch_next_batch returns such a row.
C19_CleanedQueueHasNoInvalidOrNewRows ==
    sched.pc = "cleaned" =>
       /\ \A id \in CleanIds :
             ExcludedRow(Row(id)) =>
                /\ Row(id).download_status # "pending"
                /\ sched.before[id].download_status = "pending"
                      => /\ Row(id).download_status = "skipped"
                         /\ Row(id).download_error # NULL
       /\ \A stage \in StageNames :
             \A batch \in FetchBatches(STAGE_CONFIGS[stage], index_documents,
                                       NULL, NULL, DEFAULT_BATCH_SIZE, now) :
                \A i \in 1..Len(batch) : ~ ExcludedRow(Row(batch[i]))

\* a table with a pending row without a page and a pending row of book 3972
\* has been cleaned: both rows are skipped, each with its reason
C19_Witness ==
    /\ sched.pc = "cleaned"
    /\ sched.before[1].download_status = "pending"
    /\ sched.before[2].download_status = "pending"
    /\ Row(1).book = 238 /\ Row(1).page = NULL
    /\ Row(1).download_status = "skipped"
    /\ Row(1).download_error = INVALID_REASON
    /\ Row(2).book = 3972
    /\ Row(2).download_status = "skipped"
    /\ Row(2).download_error = NEW_PORTAL_REASON

\* r1 is dated before r2; the pending rows that share book, page and source
Earlier(r1, r2) ==
    IF r1.file_date # r2.file_date
    THEN r2.file_date = NULL \/ (r1.file_date # NULL /\ r1.file_date < r2.file_date)
    ELSE r1.import_date < r2.import_date

PendingGroup(id) ==
    { g \in CleanIds :
        /\ Row(g).download_status = "pending"
        /\ Row(g).book = Row(id).book
        /\ Row(g).page = Row(id).page
        /\ Row(g).source = Row(id).source }

\* C20: the deduplication leaves, in every (book, page, source) group of
\* pending rows, exactly one row pending, an earliest one by
\* (file_date, import_date) with a null file_date last; every other row of
\* the group becomes skipped with the duplicate reason; rows of different
\* sources are never merged and no other row changes.
C20_DedupKeepsEarliestPerSource ==
    [][(sched.pc = "deduplicate" /\ sched'.pc = "priorities") =>
          \A id \in CleanIds :
             IF Row(id).download_status = "pending"
             THEN /\ Cardinality({ g \in PendingGroup(id) :
                                     RowAfter(g).download_status = "pending" }) = 1
                  /\ RowAfter(id).download_status = "pending"
                        => /\ RowAfter(id) = Row(id)
                           /\ \A g \in PendingGroup(id) :
                                 ~ Earlier(Row(g), Row(id))
                  /\ RowAfter(id).download_status # "pending"
                        => RowAfter(id) =
                              [Row(id) EXCEPT !.download_status = "skipped",
                                              !.download_error = DUPLICATE_REASON,
                                              !.updated_at = now]
             ELSE RowAfter(id) = Row(id)]_vars

\* two pending rows of one book, page and source: row 2 has the file date,
\* row 1 has none; row 2 stays pending and row 1 is skipped as a duplicate
C20_Witness ==
    /\ sched.pc = "priorities"
    /\ sched.before[1].download_status = "pending"
    /\ sched.before[2].download_status = "pending"
    /\ Row(1).book = 238 /\ Row(1).page = 1
    /\ Row(2).book = 238 /\ Row(2).page = 1
    /\ Row(1).source = Row(2).source
    /\ Row(1).file_date = NULL
    /\ Row(2).file_date = 1
    /\ Row(2).download_status = "pending"
    /\ Row(1).download_status = "skipped"
    /\ Row(1).download_error = DUPLICATE_REASON

(* ---------------------------------------------------------------------- *)
(* Ingest, pipeline and cleaning pass over one store                       *)
(* ---------------------------------------------------------------------- *)
IngestDocs == 2

\* the claims a row gets in the explored runs
IngestAttempts == 1

\* the loaders keep only records whose book and page are truthy; book 3972
\* routes to the New portal
IngestKeys == { <<100, 5>>, <<3972, 1>> }

IngestFileDates == {1}

\* the rows the conflict target (book, page, source) of the INSERT matches
ConflictIds(t, key, source) ==
    { id \in DOMAIN t :
        t[id].book = key[1] /\ t[id].page = key[2] /\ t[id].source = source }

\* an INSERT without the ON CONFLICT clause on a store without the unique
\* key: every record becomes a new row
insert_batch_without_conflict_target(t, key, source, file_date, ts) ==
    Append(t, CleanRow(key, source, <<file_date, ts>>, "pending"))

\* INSERT ... ON CONFLICT (book, page, source) DO UPDATE SET updated_at,
\* source_file: a record whose key is in the store touches that row, any
\* other record becomes a new row with the column defaults
insert_batch(t, key, source, file_date, ts) ==
    IF ConflictIds(t, key, source) # {}
    THEN [id \in DOMAIN t |->
            IF id \in ConflictIds(t, key, source)
            THEN [t[id] EXCEPT !.updated_at = ts]
            ELSE t[id]]
    ELSE Append(t, CleanRow(key, source, <<file_date, ts>>, "pending"))

\* a pass that first puts the rows skipped as duplicates back to pending and
\* ranks every group anew
clean_pass_requeueing_duplicates(t, ts) ==
    LET requeued == [id \in DOMAIN t |->
                       IF /\ t[id].download_status = "skipped"
                          /\ t[id].download_error = DUPLICATE_REASON
                       THEN [t[id] EXCEPT !.download_status = "pending",
                                          !.download_error = NULL]
                       ELSE t[id]]
    IN  UNION { { assign_download_priorities(d, ts) } :
                  d \in deduplicate_records(
                           exclude_new_portal_books(
                              mark_invalid_records(requeued, ts), ts),
                           ts) }

\* main() of the cleaning pass: its four steps in order
clean_pass(t, ts) ==
    UNION { { assign_download_priorities(d, ts) } :
              d \in deduplicate_records(
                       exclude_new_portal_books(mark_invalid_records(t, ts), ts),
                       ts) }

SettledStatuses == {"in_progress", "completed"}

\* reingested: the rows a later import matched while they were in_progress
\* or completed; cleaned_after: those of them a cleaning pass has seen
IngestInit ==
    /\ index_documents = <<>>
    /\ now = 1
    /\ sched = [pc |-> "ingest", cleaned |-> FALSE,
                reingested |-> {}, cleaned_after |-> {}]
    /\ task = <<>>
    /\ archive = {}
    /\ kills = 0

ingest_insert ==
    /\ \E key \in IngestKeys, source \in CleanSources,
          file_date \in IngestFileDates :
          /\ Len(insert_batch(index_documents, key, source, file_date, now))
                <= IngestDocs
          /\ index_documents' =
                insert_batch(index_documents, key, source, file_date, now)
          /\ sched' = [sched EXCEPT !.reingested =
                         @ \cup { id \in ConflictIds(index_documents, key, source) :
                                    Row(id).download_status \in SettledStatuses }]
    /\ UNCHANGED <<now, task, archive, kills>>

ingest_clean ==
    /\ index_documents' \in clean_pass(index_documents, now)
    /\ sched' = [sched EXCEPT !.cleaned = TRUE,
                              !.cleaned_after = sched.reingested]
    /\ UNCHANGED <<now, task, archive, kills>>

ingest_claim ==
    /\ \E id \in DOMAIN index_documents :
          /\ Row(id).download_status = "pending"
          /\ Row(id).download_attempts < IngestAttempts
          /\ index_documents' = mark_in_progress(index_documents, id, now)
    /\ UNCHANGED <<now, sched, task, archive, kills>>

ingest_complete ==
    /\ \E id \in DOMAIN index_documents :
          /\ Row(id).download_status = "in_progress"
          /\ index_documents' =
                mark_completed(index_documents, id,
                               Row(id).book * 10000 + Row(id).page, now)
    /\ UNCHANGED <<now, sched, task, archive, kills>>

ingest_fail ==
    /\ \E id \in DOMAIN index_documents :
          /\ Row(id).download_status = "in_progress"
          /\ index_documents' = mark_failed(index_documents, id, 40, TRUE, now)
    /\ UNCHANGED <<now, sched, task, archive, kills>>

IngestNext ==
    \/ ingest_insert
    \/ ingest_clean
    \/ ingest_claim
    \/ ingest_complete
    \/ ingest_fail

SpecIngest == IngestInit /\ [][IngestNext]_vars

LiveStatuses == {"pending", "in_progress", "completed"}

\* C21: once the cleaning pass has run, no two rows of one (book, page,
\* source) are both pending, in_progress or completed, also after a record
\* of an in_progress or completed row was imported again and the pass rerun.
C21_OneLiveRowPerKey ==
    sched.cleaned =>
       \A a \in DOMAIN index_documents :
          \A b \in DOMAIN index_documents :
             ( /\ a # b
               /\ SameGroup(index_documents, a, b)
               /\ Row(a).download_status \in LiveStatuses )
                => Row(b).download_status \notin LiveStatuses

\* the record of a completed row was imported again and the pass has run
\* since: the row is still completed and the store holds a second key too
C21_Witness ==
    /\ sched.cleaned
    /\ \E id \in sched.cleaned_after :
          /\ Row(id).download_status = "completed"
          /\ Row(id).updated_at = now
    /\ Len(index_documents) >= 2


(* ---------------------------------------------------------------------- *)
(* The cleaning pass run twice                                             *)
(* ---------------------------------------------------------------------- *)
\* (book, page): absent book, a Historical book, a Mid book, the first New
\* book
TwiceKeys == { <<NULL, 1>>, <<100, 1>>, <<238, 1>>, <<3972, 1>> }

TwiceDates == { <<1, 1>>, <<NULL, 1>> }

\* download_priority before the pass: never assigned, or assigned by hand
TwicePriorities == {NULL, 3}

TwiceRow(key, dates, status, will, priority) ==
    [CleanRow(key, "DuProcess", dates, status) EXCEPT
        !.will = will, !.download_priority = priority]

TwiceInit ==
    /\ index_documents \in
         { [id \in CleanIds |-> TwiceRow(k[id], d[id], st[id], w[id], pr[id])] :
             k \in [CleanIds -> TwiceKeys],
             d \in [CleanIds -> TwiceDates],
             st \in [CleanIds -> CleanStatuses],
             w \in [CleanIds -> BOOLEAN],
             pr \in [CleanIds -> TwicePriorities] }
    /\ now = 1
    /\ sched = [pc |-> "first"]
    /\ task = <<>>
    /\ archive = {}
    /\ kills = 0

\* before: the store as the first run found it; once: as it left it
twice_first_run ==
    /\ sched.pc = "first"
    /\ index_documents' \in clean_pass(index_documents, now)
    /\ sched' = [pc |-> "second", before |-> index_documents,
                 once |-> index_documents']
    /\ now' = now + 1
    /\ UNCHANGED <<task, archive, kills>>

twice_second_run ==
    /\ sched.pc = "second"
    /\ index_documents' \in clean_pass(index_documents, now)
    /\ sched' = [sched EXCEPT !.pc = "twice"]
    /\ now' = now + 1
    /\ UNCHANGED <<task, archive, kills>>

TwiceNext ==
    \/ twice_first_run
    \/ twice_second_run

SpecTwice == TwiceInit /\ [][TwiceNext]_vars

\* C22: a second run of the cleaning pass right after the first leaves
\* download_status, download_error and download_priority of every row as the
\* first run left them.
C22_CleanTwiceIsCleanOnce ==
    sched.pc = "twice" =>
       \A id \in CleanIds :
          /\ Row(id).download_status = sched.once[id].download_status
          /\ Row(id).download_error = sched.once[id].download_error
          /\ Row(id).download_priority = sched.once[id].download_priority

\* two pending rows of one key that tie in both dates, one of them a will:
\* the first run skipped one as a duplicate and set the priority of the
\* other, and the second run has been over the store
C22_Witness ==
    /\ sched.pc = "twice"
    /\ sched.before[1].download_status = "pending"
    /\ sched.before[2].download_status = "pending"
    /\ sched.before[1].will /\ ~ sched.before[2].will
    /\ SameGroup(index_documents, 1, 2)
    /\ Row(1).book = 238
    /\ Row(1).file_date = Row(2).file_date
    /\ sched.before[1].download_priority = 3
    /\ Row(1).download_status = "pending"
    /\ Row(1).download_priority = 1
    /\ Row(2).download_status = "skipped"
    /\ Row(1).updated_at = now - 1


(* ---------------------------------------------------------------------- *)
(* Download with validation of book and page                               *)
(* ---------------------------------------------------------------------- *)
ValidateDocs == 2

ValidateIds == 1..ValidateDocs

\* Python truthiness of an optional integer
Truthy(x) == x # NULL /\ x # 0

\* what the portal sends back: kind of the lookup response, the Book: and
\* Page: cells of its table, the image id of its link, and the outcome of
\* the PDF request
PortalAnswers ==
    { [kind |-> k, book |-> NULL, page |-> NULL, image_id |-> NULL, pdf |-> "none"] :
        k \in {"timeout", "request_error", "no_table", "direct_pdf"} }
    \cup
    { [kind |-> "html", book |-> b, page |-> pg, image_id |-> im, pdf |-> pdf] :
        b \in {NULL, 238, 239}, pg \in {NULL, 1, 2}, im \in {NULL, 9},
        pdf \in {"pdf", "not_pdf", "error"} }

DownloadFailure(actual_book, actual_page, book_page_mismatch) ==
    [ success |-> FALSE, actual_book |-> actual_book,
      actual_page |-> actual_page,
      book_page_mismatch |-> book_page_mismatch, local_path |-> FALSE ]

\* _parse_html_response returns metadata only when both cells were read
HasMetadata(answer) ==
    answer.kind = "html" /\ Truthy(answer.book) /\ Truthy(answer.page)

\* a download_by_instrument that compares the books only
download_by_instrument_comparing_book_only(answer, expected_book, expected_page) ==
    IF ~ HasMetadata(answer) \/ answer.kind = "direct_pdf"
    THEN DownloadFailure(NULL, NULL, FALSE)
    ELSE LET book_page_mismatch ==
                 /\ Truthy(expected_book) /\ Truthy(expected_page)
                 /\ answer.book # expected_book
         IN  IF answer.image_id = NULL
             THEN DownloadFailure(answer.book, answer.page, book_page_mismatch)
             ELSE IF answer.pdf = "error"
             THEN DownloadFailure(NULL, NULL, FALSE)
             ELSE [ success |-> TRUE, actual_book |-> answer.book,
                    actual_page |-> answer.page,
                    book_page_mismatch |-> book_page_mismatch,
                    local_path |-> (answer.pdf = "pdf") ]

\* local_path: whether the path of the result names a file (str(None)
\* names none)
download_by_instrument(answer, expected_book, expected_page) ==
    IF ~ HasMetadata(answer) \/ answer.kind = "direct_pdf"
    THEN DownloadFailure(NULL, NULL, FALSE)
    ELSE LET book_page_mismatch ==
                 /\ Truthy(expected_book) /\ Truthy(expected_page)
                 /\ (answer.book # expected_book \/ answer.page # expected_page)
         IN  IF answer.image_id = NULL
             THEN DownloadFailure(answer.book, answer.page, book_page_mismatch)
             ELSE IF answer.pdf = "error"
             THEN DownloadFailure(NULL, NULL, FALSE)
             ELSE [ success |-> TRUE, actual_book |-> answer.book,
                    actual_page |-> answer.page,
                    book_page_mismatch |-> book_page_mismatch,
                    local_path |-> (answer.pdf = "pdf") ]

download_by_book_page(answer, book, page) ==
    IF answer.kind = "direct_pdf"
    THEN [ success |-> TRUE, actual_book |-> book, actual_page |-> page,
           book_page_mismatch |-> FALSE, local_path |-> TRUE ]
    ELSE IF HasMetadata(answer) /\ answer.image_id # NULL /\ answer.pdf # "error"
    THEN [ success |-> TRUE, actual_book |-> answer.book,
           actual_page |-> answer.page,
           book_page_mismatch |-> (answer.book # book \/ answer.page # page),
           local_path |-> (answer.pdf = "pdf") ]
    ELSE DownloadFailure(NULL, NULL, FALSE)

\* the dry-run branch of process_document
DryRunResult(book, page) ==
    [ success |-> TRUE, actual_book |-> book, actual_page |-> page,
      book_page_mismatch |-> FALSE, local_path |-> TRUE ]

mark_completed_validated(t, id, gcs_url, actual_book, actual_page, book_page_mismatch, ts) ==
    [t EXCEPT ![id].download_status = "completed",
              ![id].downloaded_at = ts,
              ![id].gcs_path = gcs_url,
              ![id].actual_book = actual_book,
              ![id].actual_page = actual_page,
              ![id].book_page_mismatch = book_page_mismatch,
              ![id].download_error = NULL,
              ![id].updated_at = ts]

\* instrument_number: absent, 0, or a number
ValidateInstruments == {NULL, 0, 62379}

ValidateRow(page, instrument_number) ==
    [ book |-> 238,
      page |-> page,
      instrument_number |-> instrument_number,
      download_priority |-> 3,
      download_status |-> "pending",
      download_attempts |-> 0,
      download_error |-> NULL,
      gcs_path |-> NULL,
      downloaded_at |-> NULL,
      updated_at |-> 0,
      actual_book |-> NULL,
      actual_page |-> NULL,
      book_page_mismatch |-> FALSE ]

NoResult == DownloadFailure(NULL, NULL, FALSE)

ValidateInit ==
    /\ index_documents \in
         { [id \in ValidateIds |-> ValidateRow(id, ins[id])] :
             ins \in [ValidateIds -> ValidateInstruments] }
    /\ now = 1
    /\ sched \in { [dry_run |-> d] : d \in BOOLEAN }
    /\ task = [id \in ValidateIds |->
                 [pc |-> "idle", result |-> NoResult,
                  uploaded |-> FALSE, db_ok |-> FALSE]]
    /\ archive = {}
    /\ kills = 0

\* process_document up to the download
validate_begin(id) ==
    /\ task[id].pc = "idle"
    /\ Row(id).download_status = "pending"
    /\ index_documents' = mark_in_progress(index_documents, id, now)
    /\ task' = [task EXCEPT ![id].pc = "download"]
    /\ UNCHANGED <<now, sched, archive, kills>>

validate_download(id) ==
    /\ task[id].pc = "download"
    /\ \E answer \in PortalAnswers :
          task' = [task EXCEPT
                     ![id].pc = "settle",
                     ![id].result =
                        IF sched.dry_run
                        THEN DryRunResult(Row(id).book, Row(id).page)
                        ELSE IF Truthy(Row(id).instrument_number)
                        THEN download_by_instrument(answer, Row(id).book,
                                                    Row(id).page)
                        ELSE download_by_book_page(answer, Row(id).book,
                                                   Row(id).page)]
    /\ UNCHANGED <<index_documents, now, sched, archive, kills>>

\* the rest of process_document: upload, then mark_completed, or mark_failed
\* from the except clause
validate_settle(id) ==
    /\ task[id].pc = "settle"
    /\ \E upload_ok \in BOOLEAN, db_ok \in BOOLEAN :
          LET result == task[id].result
              uploaded == /\ result.success
                          /\ sched.dry_run \/ (result.local_path /\ upload_ok)
          IN  /\ task' = [task EXCEPT ![id].pc = "done",
                                      ![id].uploaded = uploaded,
                                      ![id].db_ok = db_ok]
              /\ index_documents' =
                    IF ~ db_ok
                    THEN index_documents
                    ELSE IF uploaded
                    THEN mark_completed_validated(
                            index_documents, id,
                            Row(id).book * 10000 + Row(id).page,
                            result.actual_book, result.actual_page,
                            result.book_page_mismatch, now)
                    ELSE mark_failed(index_documents, id, 40, TRUE, now)
    /\ UNCHANGED <<now, sched, archive, kills>>

ValidateNext ==
    \E id \in ValidateIds :
       \/ validate_begin(id)
       \/ validate_download(id)
       \/ validate_settle(id)

SpecValidate == ValidateInit /\ [][ValidateNext]_vars

\* C23: every completed row has book_page_mismatch true exactly when
\* (actual_book, actual_page) differs from its (book, page); a mismatch
\* comes with both actual values non-null; and a record whose download
\* succeeded with a mismatch, whose upload and status write went through,
\* is completed, not failed.
C23_MismatchIffActualDiffers ==
    \A id \in ValidateIds :
       /\ Row(id).download_status = "completed" =>
             /\ Row(id).book_page_mismatch <=>
                   ( \/ Row(id).actual_book # Row(id).book
                     \/ Row(id).actual_page # Row(id).page )
             /\ Row(id).book_page_mismatch =>
                   /\ Row(id).actual_book # NULL
                   /\ Row(id).actual_page # NULL
       /\ ( /\ task[id].pc = "done"
            /\ task[id].result.book_page_mismatch
            /\ task[id].uploaded
            /\ task[id].db_ok )
             => Row(id).download_status = "completed"

\* row 1 (book 238, page 1, with an instrument number) was answered with
\* book 238 page 2: it is completed with the mismatch recorded
C23_Witness ==
    /\ ~ sched.dry_run
    /\ Row(1).instrument_number = 62379
    /\ Row(1).download_status = "completed"
    /\ Row(1).book_page_mismatch
    /\ Row(1).actual_book = 238
    /\ Row(1).actual_page = 2


(* ---------------------------------------------------------------------- *)
(* Optimize in place, then upload                                          *)
(* ---------------------------------------------------------------------- *)
OptimizeDocs == 2

OptimizeIds == 1..OptimizeDocs

\* st_size of the downloaded file and of the Ghostscript output
OriginalSize == 3

OptimizedSizes == {1, 4}

\* how subprocess.run ends: exit status 0, CalledProcessError with or
\* without an output file written, TimeoutExpired
GhostscriptOutcomes == {"ok", "failed", "failed_partial", "timeout"}

\* the downloaded file of a record and the temp file next to it; file:
\* what the path of the download holds; temp: what {stem}_temp.pdf holds
OptimizeTask(pc) ==
    [ pc |-> pc, file |-> "original", temp |-> "absent",
      raised |-> FALSE, original_size |-> OriginalSize,
      optimized_size |-> OriginalSize, gcs_ok |-> FALSE, db_ok |-> FALSE ]

OptimizeRow(id) ==
    [InitialRow(id, 1) EXCEPT !.download_status = "in_progress",
                              !.download_error = NULL]

\* pdf_optimizer is None when Ghostscript was not found at start
OptimizeInit ==
    /\ index_documents = [id \in OptimizeIds |-> OptimizeRow(id)]
    /\ now = 1
    /\ sched \in { [pdf_optimizer |-> o] : o \in BOOLEAN }
    /\ task = [id \in OptimizeIds |->
                 OptimizeTask(IF sched.pdf_optimizer THEN "optimize" ELSE "upload")]
    /\ archive = {}
    /\ kills = 0

\* optimize(): the Ghostscript run; the timeout handler removes the output
optimize(id) ==
    /\ task[id].pc = "optimize"
    /\ \E outcome \in GhostscriptOutcomes, size \in OptimizedSizes :
          task' = [task EXCEPT ![id] =
                     IF outcome = "ok"
                     THEN [@ EXCEPT !.pc = "unlink", !.temp = "optimized",
                                    !.optimized_size = size]
                     ELSE [@ EXCEPT !.pc = "except",
                                    !.temp = IF outcome = "failed_partial"
                                             THEN "partial" ELSE "absent"]]
    /\ UNCHANGED <<index_documents, now, sched, archive, kills>>

\* file_path.unlink()
optimize_in_place_unlink(id) ==
    /\ task[id].pc = "unlink"
    /\ \E ok \in BOOLEAN :
          task' = [task EXCEPT ![id] =
                     IF ok
                     THEN [@ EXCEPT !.pc = "rename", !.file = "absent"]
                     ELSE [@ EXCEPT !.pc = "except"]]
    /\ UNCHANGED <<index_documents, now, sched, archive, kills>>

\* temp_output.rename(file_path), then return (original_size, optimized_size)
optimize_in_place_rename(id) ==
    /\ task[id].pc = "rename"
    /\ \E ok \in BOOLEAN :
          task' = [task EXCEPT ![id] =
                     IF ok
                     THEN [@ EXCEPT !.pc = "upload", !.file = task[id].temp,
                                    !.temp = "absent"]
                     ELSE [@ EXCEPT !.pc = "except"]]
    /\ UNCHANGED <<index_documents, now, sched, archive, kills>>

\* except Exception: remove the temp file, raise; the worker logs the
\* warning and keeps optimized_size = original_size
optimize_in_place_except(id) ==
    /\ task[id].pc = "except"
    /\ task' = [task EXCEPT ![id].pc = "upload",
                            ![id].temp = "absent",
                            ![id].raised = TRUE,
                            ![id].optimized_size = task[id].original_size]
    /\ UNCHANGED <<index_documents, now, sched, archive, kills>>

\* upload_file raises FileNotFoundError when the local file is gone, or
\* fails in the storage service; process_document then marks the record
\* completed, or failed from its except clause
upload_and_settle(id) ==
    /\ task[id].pc = "upload"
    /\ \E gcs_ok \in BOOLEAN, db_ok \in BOOLEAN :
          LET uploaded == task[id].file # "absent" /\ gcs_ok
          IN  /\ task' = [task EXCEPT ![id].pc = "settled",
                                      ![id].gcs_ok = gcs_ok,
                                      ![id].db_ok = db_ok,
                                      ![id].file = IF uploaded THEN "absent" ELSE @]
              /\ archive' = IF uploaded
                            THEN archive \cup
                                   { [path |-> GcsUrl(id),
                                      bytes |-> task[id].file,
                                      original_size |-> task[id].original_size,
                                      optimized_size |-> task[id].optimized_size] }
                            ELSE archive
              /\ index_documents' =
                    IF ~ db_ok THEN index_documents
                    ELSE IF uploaded
                    THEN mark_completed(index_documents, id, GcsUrl(id), now)
                    ELSE mark_failed(index_documents, id, 40, TRUE, now)
    /\ UNCHANGED <<now, sched, kills>>

OptimizeNext ==
    \E id \in OptimizeIds :
       \/ optimize(id)
       \/ optimize_in_place_unlink(id)
       \/ optimize_in_place_rename(id)
       \/ optimize_in_place_except(id)
       \/ upload_and_settle(id)

SpecOptimize == OptimizeInit /\ [][OptimizeNext]_vars

\* C24: a record whose optimizer raised, and whose upload service and
\* status write work, is completed; the object uploaded for it holds the
\* unoptimized bytes with optimized_size = original_size.
C24_OptimizerFailureStillCompletes ==
    \A id \in OptimizeIds :
       ( /\ task[id].pc = "settled"
         /\ task[id].raised
         /\ task[id].gcs_ok
         /\ task[id].db_ok )
          => /\ Row(id).download_status = "completed"
             /\ \E o \in archive :
                   /\ o.path = GcsUrl(id)
                   /\ o.bytes = "original"
                   /\ o.optimized_size = o.original_size

\* C25: when optimize_in_place has raised, the path holds the original
\* file and no temp file is left; when it has returned, the path holds the
\* optimized file.
C25_InPlaceIsAtomic ==
    \A id \in OptimizeIds :
       ( sched.pdf_optimizer /\ task[id].pc = "upload" ) =>
          /\ task[id].temp = "absent"
          /\ task[id].file = IF task[id].raised THEN "original" ELSE "optimized"


(* ---------------------------------------------------------------------- *)
(* Object archive: upload_file                                             *)
(* ---------------------------------------------------------------------- *)
MaxUploads == 3

UploadPaths == {2380001, 2380002}

\* contents of the local file
UploadBytes == {1, 2}

\* hashlib.sha256 of the contents, on the contents of the model
calculate_checksum(bytes) == (bytes * 37 + 11) % 101

GcsUri(gcs_path) == <<"gs", "bucket_name", gcs_path>>

BlobsAt(bucket, gcs_path) == { o \in bucket : o.path = gcs_path }

\* blob.upload_from_file: the object of the path is replaced
WriteBlob(bucket, gcs_path, bytes, ts) ==
    (bucket \ BlobsAt(bucket, gcs_path))
       \cup { [path |-> gcs_path, bytes |-> bytes,
               checksum |-> calculate_checksum(bytes), upload_time |-> ts] }

\* an upload_file that does not look at the stored checksum
upload_file_without_checksum_test(bucket, gcs_path, bytes, ts) ==
    [ bucket |-> WriteBlob(bucket, gcs_path, bytes, ts),
      uri |-> GcsUri(gcs_path),
      checksum |-> calculate_checksum(bytes),
      wrote |-> TRUE ]

\* the bucket after the call, the returned (gcs_url, checksum), and whether
\* the call wrote
upload_file(bucket, gcs_path, bytes, ts) ==
    IF \E o \in BlobsAt(bucket, gcs_path) :
          o.checksum = calculate_checksum(bytes)
    THEN [ bucket |-> bucket,
           uri |-> GcsUri(gcs_path),
           checksum |-> calculate_checksum(bytes),
           wrote |-> FALSE ]
    ELSE [ bucket |-> WriteBlob(bucket, gcs_path, bytes, ts),
           uri |-> GcsUri(gcs_path),
           checksum |-> calculate_checksum(bytes),
           wrote |-> TRUE ]

NoCall ==
    [ path |-> NULL, bytes |-> NULL, returned |-> FALSE,
      uri |-> <<>>, checksum |-> NULL, wrote |-> FALSE ]

\* the bucket is empty, or holds an object another tool put there without
\* checksum metadata
UploadInit ==
    /\ index_documents = <<>>
    /\ now = 1
    /\ sched = [calls |-> 0, last |-> NoCall, previous |-> NoCall]
    /\ task = <<>>
    /\ archive \in { {},
                     { [path |-> 2380001, bytes |-> 1, checksum |-> NULL,
                        upload_time |-> 0] } }
    /\ kills = 0

\* a call that returns
upload_call ==
    /\ sched.calls < MaxUploads
    /\ \E gcs_path \in UploadPaths, bytes \in UploadBytes :
          LET call == upload_file(archive, gcs_path, bytes, now)
          IN  /\ archive' = call.bucket
              /\ sched' = [calls |-> sched.calls + 1,
                           previous |-> sched.last,
                           last |-> [path |-> gcs_path, bytes |-> bytes,
                                     returned |-> TRUE, uri |-> call.uri,
                                     checksum |-> call.checksum,
                                     wrote |-> call.wrote]]
    /\ now' = now + 1
    /\ UNCHANGED <<index_documents, task, kills>>

\* a call that raises: the file is missing, or the storage service fails
\* before or after the object was written
upload_raises ==
    /\ sched.calls < MaxUploads
    /\ \E gcs_path \in UploadPaths, bytes \in UploadBytes, written \in BOOLEAN :
          /\ archive' = IF written
                        THEN upload_file(archive, gcs_path, bytes, now).bucket
                        ELSE archive
          /\ sched' = [calls |-> sched.calls + 1,
                       previous |-> sched.last,
                       last |-> [NoCall EXCEPT !.path = gcs_path,
                                               !.bytes = bytes]]
    /\ now' = now + 1
    /\ UNCHANGED <<index_documents, task, kills>>

UploadNext ==
    \/ upload_call
    \/ upload_raises

SpecUpload == UploadInit /\ [][UploadNext]_vars

\* C26: when two calls in a row upload the same bytes to the same path and
\* both return, the second writes nothing, the path holds exactly one
\* object, and both return the same URI and the same checksum.
C26_UploadTwiceIsUploadOnce ==
    ( /\ sched.previous.returned
      /\ sched.last.returned
      /\ sched.last.path = sched.previous.path
      /\ sched.last.bytes = sched.previous.bytes )
       => /\ ~ sched.last.wrote
          /\ Cardinality(BlobsAt(archive, sched.last.path)) = 1
          /\ \A o \in BlobsAt(archive, sched.last.path) :
                o.bytes = sched.last.bytes
          /\ sched.last.uri = sched.previous.uri
          /\ sched.last.checksum = sched.previous.checksum

\* the first call replaced the object that had no checksum, the second call
\* with the same bytes and path returned without writing
C26_Witness ==
    /\ sched.calls = 2
    /\ sched.previous.returned /\ sched.previous.wrote
    /\ sched.last.returned /\ ~ sched.last.wrote
    /\ sched.last.path = 2380001 /\ sched.previous.path = 2380001
    /\ sched.last.bytes = 2 /\ sched.previous.bytes = 2
    /\ \E o \in archive : o.path = 2380001 /\ o.upload_time = 1 /\ o.bytes = 2


(* ---------------------------------------------------------------------- *)
(* Remote path and metadata of a record                                    *)
(* ---------------------------------------------------------------------- *)
\* Python values of a row's columns: None, a string (its characters), an
\* integer
PyNone == [type |-> "none", chars |-> <<>>, int |-> 0]

PyStr(chars) == [type |-> "str", chars |-> chars, int |-> 0]

PyInt(n) == [type |-> "int", chars |-> <<>>, int |-> n]

PyTruthy(v) ==
    \/ v.type = "str" /\ v.chars # <<>>
    \/ v.type = "int" /\ v.int # 0

RECURSIVE Digits(_)
Digits(n) == IF n < 10 THEN <<n>> ELSE Append(Digits(n \div 10), n % 10)

RECURSIVE ZeroPad(_, _)
ZeroPad(digits, width) ==
    IF Len(digits) >= width THEN digits ELSE ZeroPad(<<0>> \o digits, width)

\* f"{n:04d}"
Format04d(n) == ZeroPad(Digits(n), 4)

\* str(v), digits written as characters
DigitChar(d) == <<"0", "1", "2", "3", "4", "5", "6", "7", "8", "9">>[d + 1]

PyStrOf(v) ==
    IF v.type = "none" THEN <<"N", "o", "n", "e">>
    ELSE IF v.type = "str" THEN v.chars
    ELSE [i \in 1..Len(Digits(v.int)) |-> DigitChar(Digits(v.int)[i])]

LowerChar(c) ==
    CASE c = "D" -> "d"
      [] c = "W" -> "w"
      [] c = "L" -> "l"
      [] OTHER -> c

\* s.lower().replace('_', '-')
LowerKebab(chars) ==
    [i \in 1..Len(chars) |->
        IF chars[i] = "_" THEN "-" ELSE LowerChar(chars[i])]

FolderPrefix(book) ==
    IF book < 238 THEN "historical"
    ELSE IF book < 1000 THEN "mid-early"
    ELSE "mid-recent"

Unknown == <<"u", "n", "k", "n", "o", "w", "n">>

\* gcs_path and metadata as DownloadWorker._upload_to_gcs builds them
parallel_remote_path(doc) ==
    LET doc_type == LowerKebab(IF PyTruthy(doc.document_type)
                               THEN doc.document_type.chars ELSE Unknown)
        instrument_number == IF PyTruthy(doc.instrument_number)
                             THEN doc.instrument_number ELSE PyInt(0)
    IN  [ raised |-> FALSE,
          folder_prefix |-> FolderPrefix(doc.book),
          doc_type |-> doc_type,
          book |-> Format04d(doc.book),
          page |-> Format04d(doc.page),
          instrument_number |-> PyStrOf(instrument_number),
          instrument_type |-> IF PyTruthy(doc.instrument_type_parsed)
                              THEN doc.instrument_type_parsed
                              ELSE PyStr(<<>>) ]

PathRaised ==
    [ raised |-> TRUE, folder_prefix |-> "", doc_type |-> <<>>,
      book |-> <<>>, page |-> <<>>, instrument_number |-> <<>>,
      instrument_type |-> PyNone ]

\* as StagedDownloader.upload_to_gcs builds them: dict.get with a default
\* returns the stored None, and None has no lower()
staged_remote_path(doc) ==
    IF doc.document_type.type = "none"
    THEN PathRaised
    ELSE [ raised |-> FALSE,
           folder_prefix |-> FolderPrefix(doc.book),
           doc_type |-> LowerKebab(doc.document_type.chars),
           book |-> Format04d(doc.book),
           page |-> Format04d(doc.page),
           instrument_number |-> PyStrOf(doc.instrument_number),
           instrument_type |-> doc.instrument_type_parsed ]

PathBooks == {9, 237, 238, 999, 1000, 3971}

PathPages == {5, 264, 12345}

PathDocumentTypes ==
    { PyNone, PyStr(<<>>), PyStr(<<"D", "E", "E", "D">>),
      PyStr(<<"L", "_", "W", "_", "D">>) }

PathInstrumentNumbers == { PyNone, PyStr(<<>>), PyInt(0), PyInt(62379) }

PathInstrumentTypes == { PyNone, PyStr(<<>>), PyStr(<<"W", "D">>) }

PathDownloaders == {"parallel", "staged"}

\* task: the record handed to the upload; sched: the call and its result
PathInit ==
    /\ index_documents = <<>>
    /\ now = 1
    /\ task \in [ book : PathBooks, page : PathPages,
                  document_type : PathDocumentTypes,
                  instrument_number : PathInstrumentNumbers,
                  instrument_type_parsed : PathInstrumentTypes ]
    /\ sched \in { [pc |-> "call", downloader |-> d, result |-> PathRaised] :
                     d \in PathDownloaders }
    /\ archive = {}
    /\ kills = 0

remote_path_call ==
    /\ sched.pc = "call"
    /\ sched' = [sched EXCEPT
                   !.pc = "done",
                   !.result = IF sched.downloader = "parallel"
                              THEN parallel_remote_path(task)
                              ELSE staged_remote_path(task)]
    /\ UNCHANGED <<index_documents, now, task, archive, kills>>

PathNext == remote_path_call

SpecPath == PathInit /\ [][PathNext]_vars

\* C27: the path of a record is documents/{prefix}/{doc-type}/
\* {book:04d}-{page:04d}.pdf with the prefix chosen by the book and the
\* doc-type the lower-kebab-case document_type; a null or empty
\* document_type gives 'unknown', a null or empty instrument_number the
\* metadata '0', a null instrument_type_parsed the metadata '', and the
\* computation does not raise.
C27_RemotePathAndNullDefaults ==
    sched.pc = "done" =>
       /\ ~ sched.result.raised
       /\ sched.result.folder_prefix =
             ( IF task.book < 238 THEN "historical"
               ELSE IF task.book < 1000 THEN "mid-early"
               ELSE "mid-recent" )
       /\ sched.result.book = Format04d(task.book)
       /\ sched.result.page = Format04d(task.page)
       /\ sched.result.doc_type =
             ( IF task.document_type.type = "none"
                  \/ task.document_type.chars = <<>>
               THEN Unknown
               ELSE LowerKebab(task.document_type.chars) )
       /\ ( task.instrument_number.type = "none"
            \/ task.instrument_number = PyStr(<<>>) )
             => sched.result.instrument_number = <<"0">>
       /\ task.instrument_type_parsed.type = "none"
             => sched.result.instrument_type = PyStr(<<>>)


(* ---------------------------------------------------------------------- *)
(* RateLimiter shared by the worker threads                                *)
(* ---------------------------------------------------------------------- *)
LimiterWorkers == 2

\* wait() calls of one thread
LimiterCalls == 2

\* delay, in clock ticks
LimiterDelay == 2

\* the clock runs freely up to here, and further while a thread sleeps
LimiterHorizon == 4

LimiterThreads == 1..LimiterWorkers

\* a lock that is never held
lock_never_held(lock) == TRUE

\* threading.Lock: acquired only when no thread holds it
lock_free(lock) == lock = NULL

\* time.sleep(self.delay - elapsed) under "if elapsed < self.delay"
sleep_time(delay, elapsed) == IF elapsed < delay THEN delay - elapsed ELSE 0

\* now: time.time(), far past last_request = 0 when the limiter is made;
\* stamps: the values last_request was given
LimiterInit ==
    /\ index_documents = <<>>
    /\ now = LimiterDelay
    /\ sched = [lock |-> NULL, last_request |-> 0, stamps |-> <<>>]
    /\ task = [t \in LimiterThreads |->
                 [pc |-> "idle", calls |-> 0, wake_at |-> 0, slept |-> 0]]
    /\ archive = {}
    /\ kills = 0

\* a thread calls wait()
limiter_call(t) ==
    /\ task[t].pc = "idle"
    /\ task[t].calls < LimiterCalls
    /\ task' = [task EXCEPT ![t].pc = "acquire", ![t].calls = @ + 1]
    /\ UNCHANGED <<index_documents, now, sched, archive, kills>>

\* with self.lock:
limiter_acquire(t) ==
    /\ task[t].pc = "acquire"
    /\ lock_free(sched.lock)
    /\ sched' = [sched EXCEPT !.lock = t]
    /\ task' = [task EXCEPT ![t].pc = "locked"]
    /\ UNCHANGED <<index_documents, now, archive, kills>>

\* now = time.time(); elapsed = now - self.last_request; sleep if needed
limiter_sleep(t) ==
    /\ task[t].pc = "locked"
    /\ LET elapsed == now - sched.last_request
       IN  task' = [task EXCEPT
                      ![t].pc = "sleeping",
                      ![t].slept = sleep_time(LimiterDelay, elapsed),
                      ![t].wake_at = now + sleep_time(LimiterDelay, elapsed)]
    /\ UNCHANGED <<index_documents, now, sched, archive, kills>>

\* the sleep is over; self.last_request = time.time(); the lock is released
limiter_stamp(t) ==
    /\ task[t].pc = "sleeping"
    /\ now >= task[t].wake_at
    /\ sched' = [sched EXCEPT
                   !.last_request = now,
                   !.stamps = Append(@, now),
                   !.lock = IF @ = t THEN NULL ELSE @]
    /\ task' = [task EXCEPT ![t].pc = "idle"]
    /\ UNCHANGED <<index_documents, now, archive, kills>>

limiter_tick ==
    /\ \/ now < LimiterHorizon
       \/ \E t \in LimiterThreads :
             task[t].pc = "sleeping" /\ now < task[t].wake_at
    /\ now' = now + 1
    /\ UNCHANGED <<index_documents, sched, task, archive, kills>>

LimiterNext ==
    \/ \E t \in LimiterThreads :
          \/ limiter_call(t)
          \/ limiter_acquire(t)
          \/ limiter_sleep(t)
          \/ limiter_stamp(t)
    \/ limiter_tick

SpecLimiter == LimiterInit /\ [][LimiterNext]_vars

\* a thread that can run does run, and time passes
SpecLimiterFair ==
    /\ SpecLimiter
    /\ \A t \in LimiterThreads :
          /\ WF_vars(limiter_acquire(t))
          /\ WF_vars(limiter_sleep(t))
          /\ WF_vars(limiter_stamp(t))
    /\ WF_vars(limiter_tick)

LimiterSpacing ==
    /\ \A i \in 2..Len(sched.stamps) :
          sched.stamps[i] - sched.stamps[i - 1] >= LimiterDelay
    /\ \A t \in LimiterThreads : task[t].slept <= LimiterDelay

\* C28: whatever the interleaving of the threads, two consecutive values
\* of last_request are at least delay apart, no wait() sleeps longer than
\* delay, and every wait() that was called returns.
C28_SpacingAndReturn ==
    /\ [] LimiterSpacing
    /\ \A t \in LimiterThreads :
          (task[t].pc # "idle") ~> (task[t].pc = "idle")

\* both threads have made all their calls; some call had to sleep the
\* full remaining delay while the other thread waited for the lock
C28_Witness ==
    /\ Len(sched.stamps) = LimiterWorkers * LimiterCalls
    /\ \A t \in LimiterThreads : task[t].pc = "idle"
    /\ \E t \in LimiterThreads : task[t].slept = LimiterDelay
    /\ \E i \in 2..Len(sched.stamps) :
          sched.stamps[i] - sched.stamps[i - 1] = LimiterDelay


(* ---------------------------------------------------------------------- *)
(* Scheduler run with checkpoints and operator interrupt                   *)
(* ---------------------------------------------------------------------- *)
CheckpointDocs == 4

\* checkpoint_interval (100 in the source), scaled to the rows explored
CheckpointInterval == 2

\* rows of one fetch (100, or num_workers * 10, in the source)
CheckpointBatch == 2

CheckpointWorkers == 2

CheckpointIds == 1..CheckpointDocs

CheckpointSchedulers == {"staged", "parallel"}

CheckpointRow(id) == [InitialRow(id, 0) EXCEPT !.book = 238, !.page = id]

\* get_queue_statistics: rows by status
QueueStatistics(t) ==
    [st \in {"pending", "in_progress", "completed", "failed"} |->
        Cardinality({ id \in DOMAIN t : t[id].download_status = st })]

\* DownloadQueueManager.save_checkpoint wrapped by
\* CheckpointManager.save_checkpoint
save_checkpoint(stage, last_fetched_id, t, ts) ==
    [ stage |-> stage, timestamp |-> ts,
      last_fetched_id |-> last_fetched_id,
      statistics |-> QueueStatistics(t) ]

\* task[id]: the record in the current run; begun_at: when it was marked
\* in_progress
CheckpointInit ==
    /\ index_documents = [id \in CheckpointIds |-> CheckpointRow(id)]
    /\ now = 1
    /\ sched \in { [scheduler |-> s, pc |-> "fetch", last_fetched_id |-> NULL,
                    batch |-> <<>>, document_count |-> 0,
                    interrupted_at |-> NULL, exit_code |-> NULL] :
                     s \in CheckpointSchedulers }
    /\ task = [id \in CheckpointIds |-> [pc |-> "idle", begun_at |-> NULL]]
    /\ archive = {}
    /\ kills = 0

Draining == sched.interrupted_at # NULL

InFlight == { id \in CheckpointIds : task[id].pc \in {"queued", "running"} }

\* fetch_next_batch at the head of the while loop; the parallel scheduler
\* submits the whole batch to the executor; an empty batch ends the loop
checkpoint_fetch ==
    /\ sched.pc = "fetch"
    /\ ~ Draining
    /\ \E batch \in FetchBatches(STAGE_CONFIGS["stage-3-large"], index_documents,
                                 sched.last_fetched_id, CheckpointBatch,
                                 CheckpointBatch, now) :
          IF batch = <<>>
          THEN /\ sched' = [sched EXCEPT !.pc = "final"]
               /\ task' = task
          ELSE /\ sched' = [sched EXCEPT !.pc = "process", !.batch = batch,
                                         !.last_fetched_id = batch[Len(batch)]]
               /\ task' = [id \in CheckpointIds |->
                             IF \E i \in 1..Len(batch) : batch[i] = id
                             THEN [task[id] EXCEPT !.pc = "queued"]
                             ELSE task[id]]
    /\ now' = now + 1
    /\ UNCHANGED <<index_documents, archive, kills>>

\* process_document starts on a record: the next one of the batch in the
\* sequential loop, any queued one on a free thread of the pool
checkpoint_begin(id) ==
    /\ sched.pc \in {"process", "draining"}
    /\ task[id].pc = "queued"
    /\ IF sched.scheduler = "staged"
       THEN /\ sched.pc = "process"
            /\ \A other \in CheckpointIds : task[other].pc # "running"
            /\ \A other \in CheckpointIds :
                  task[other].pc = "queued" => id <= other
       ELSE Cardinality({ other \in CheckpointIds : task[other].pc = "running" })
               < CheckpointWorkers
    /\ index_documents' = mark_in_progress(index_documents, id, now)
    /\ task' = [task EXCEPT ![id].pc = "running", ![id].begun_at = now]
    /\ now' = now + 1
    /\ UNCHANGED <<sched, archive, kills>>

\* process_document ends, the loop counts the record; the sequential loop
\* saves a checkpoint when the count is a multiple of the interval; when
\* the batch is done the loop fetches again
checkpoint_settle(id) ==
    /\ sched.pc \in {"process", "draining"}
    /\ task[id].pc = "running"
    /\ \E success \in BOOLEAN :
          LET settled == IF success
                         THEN mark_completed(index_documents, id, GcsUrl(id), now)
                         ELSE mark_failed(index_documents, id, 40, TRUE, now)
              count == sched.document_count + 1
          IN  /\ index_documents' = settled
              /\ archive' =
                    IF /\ sched.scheduler = "staged"
                       /\ count % CheckpointInterval = 0
                    THEN archive \cup
                           { save_checkpoint("stage-3-large",
                                             sched.last_fetched_id, settled, now) }
                    ELSE archive
              /\ sched' = [sched EXCEPT
                             !.document_count = count,
                             !.pc = IF sched.pc = "process"
                                       /\ InFlight = {id}
                                    THEN "fetch" ELSE @]
    /\ task' = [task EXCEPT ![id].pc = "settled"]
    /\ now' = now + 1
    /\ UNCHANGED <<kills>>

\* after the loop: the sequential run() saves a final checkpoint, the
\* parallel run() only returns its connections; main returns 0
checkpoint_final ==
    /\ sched.pc = "final"
    /\ archive' =
          IF sched.scheduler = "staged"
          THEN archive \cup
                 { save_checkpoint("stage-3-large", sched.last_fetched_id,
                                   index_documents, now) }
          ELSE archive
    /\ sched' = [sched EXCEPT !.pc = "exited", !.exit_code = 0]
    /\ now' = now + 1
    /\ UNCHANGED <<index_documents, task, kills>>

\* KeyboardInterrupt in the main thread: in the sequential scheduler it
\* leaves process_document (it is no Exception) and run(), and main returns
\* 130; in the parallel scheduler it leaves the loop and the executor's
\* __exit__ waits for every submitted record
checkpoint_interrupt ==
    /\ sched.pc \in {"fetch", "process", "final"}
    /\ sched' = [sched EXCEPT
                   !.interrupted_at = now,
                   !.pc = IF sched.scheduler = "parallel" /\ InFlight # {}
                          THEN "draining" ELSE "exited",
                   !.exit_code = IF sched.scheduler = "parallel" /\ InFlight # {}
                                 THEN NULL ELSE 130]
    /\ now' = now + 1
    /\ UNCHANGED <<index_documents, task, archive, kills>>

\* shutdown(wait=True) returns, main returns 130
checkpoint_drained ==
    /\ sched.pc = "draining"
    /\ InFlight = {}
    /\ sched' = [sched EXCEPT !.pc = "exited", !.exit_code = 130]
    /\ now' = now + 1
    /\ UNCHANGED <<index_documents, task, archive, kills>>

CheckpointNext ==
    \/ checkpoint_fetch
    \/ \E id \in CheckpointIds : checkpoint_begin(id)
    \/ \E id \in CheckpointIds : checkpoint_settle(id)
    \/ checkpoint_final
    \/ checkpoint_interrupt
    \/ checkpoint_drained

SpecCheckpoint == CheckpointInit /\ [][CheckpointNext]_vars

Completions ==
    Cardinality({ id \in CheckpointIds : Row(id).download_status = "completed" })

\* C29: while the scheduler runs, sequential or parallel, a checkpoint with
\* stage, timestamp, last_fetched_id and statistics has been saved for
\* every CheckpointInterval completions so far.
C29_CheckpointEveryInterval ==
    sched.interrupted_at = NULL =>
       Cardinality(archive) >= Completions \div CheckpointInterval

\* C30: when the scheduler has exited with code 130 after an interrupt, no
\* record was started after the interrupt, no row is in_progress, and a
\* checkpoint was written after the interrupt.
C30_InterruptDrainsAndCheckpoints ==
    ( sched.pc = "exited" /\ sched.exit_code = 130 ) =>
       /\ \A id \in CheckpointIds :
             task[id].begun_at # NULL => task[id].begun_at < sched.interrupted_at
       /\ \A id \in CheckpointIds : Row(id).download_status # "in_progress"
       /\ \E c \in archive : c.timestamp >= sched.interrupted_at


(* ---------------------------------------------------------------------- *)
(* The sequential scheduler run again, fresh or with --resume:             *)
(* StagedDownloadManager.run, CheckpointManager.load_last_checkpoint and   *)
(* DownloadQueueManager.load_checkpoint                                    *)
(* ---------------------------------------------------------------------- *)
ResumeDocs == 3

\* batch_size of fetch_next_batch (100 in the source), scaled
ResumeBatch == 2

\* runs of the scheduler explored, one after the other
ResumeRuns == 2

ResumeIds == 1..ResumeDocs

ResumeRow(id, page) == [InitialRow(id, 0) EXCEPT !.book = 238, !.page = page]

\* the checkpoint file with the latest mtime among those of the stage, as
\* a set: empty when the stage has no checkpoint file
load_last_checkpoint(files, stage) ==
    { c \in files :
        /\ c.stage = stage
        /\ \A d \in files : d.stage = stage => d.timestamp <= c.timestamp }

\* load_checkpoint: the value given to self.last_fetched_id
load_checkpoint(checkpoint) == checkpoint.last_fetched_id

\* sched.first_table and sched.first_batch: the table the first fetch of the
\* current run read and the batch it returned
ResumeInit ==
    /\ index_documents \in
          { [id \in ResumeIds |-> ResumeRow(id, pages[id])] :
              pages \in { f \in [ResumeIds -> ResumeIds] :
                            \A a, b \in ResumeIds : a # b => f[a] # f[b] } }
    /\ now = 1
    /\ sched = [ pc |-> "idle", runs |-> 0, resume |-> FALSE,
                 last_fetched_id |-> NULL, batch |-> <<>>,
                 document_count |-> 0, fetches |-> 0,
                 first_table |-> <<>>, first_batch |-> <<>> ]
    /\ task = <<>>
    /\ archive = {}
    /\ kills = 0

\* run(resume) up to the loop: a new queue manager (last_fetched_id None),
\* the newest checkpoint loaded on --resume, the stale reset, and the
\* return when nothing is pending
resume_run_start ==
    /\ sched.pc \in {"idle", "exited"}
    /\ sched.runs < ResumeRuns
    /\ \E resume \in BOOLEAN :
          LET loaded == IF resume
                        THEN load_last_checkpoint(archive, "stage-3-large")
                        ELSE {}
              cursor == IF loaded = {} THEN NULL
                        ELSE load_checkpoint(CHOOSE c \in loaded : TRUE)
              t == reset_in_progress_records(index_documents, now)
          IN  /\ index_documents' = t
              /\ sched' = [sched EXCEPT
                             !.pc = IF QueueStatistics(t)["pending"] = 0
                                    THEN "exited" ELSE "fetch",
                             !.runs = @ + 1,
                             !.resume = resume,
                             !.last_fetched_id = cursor,
                             !.batch = <<>>,
                             !.document_count = 0,
                             !.fetches = 0,
                             !.first_table = <<>>,
                             !.first_batch = <<>>]
    /\ now' = now + 1
    /\ UNCHANGED <<task, archive, kills>>

\* fetch_next_batch() at the head of the while loop
resume_fetch ==
    /\ sched.pc = "fetch"
    /\ \E batch \in FetchBatches(STAGE_CONFIGS["stage-3-large"], index_documents,
                                 sched.last_fetched_id, NULL, ResumeBatch, now) :
          sched' = [sched EXCEPT
                      !.pc = IF batch = <<>> THEN "final" ELSE "process",
                      !.batch = batch,
                      !.last_fetched_id =
                          IF batch = <<>> THEN @ ELSE batch[Len(batch)],
                      !.fetches = @ + 1,
                      !.first_table =
                          IF sched.fetches = 0 THEN index_documents ELSE @,
                      !.first_batch = IF sched.fetches = 0 THEN batch ELSE @]
    /\ now' = now + 1
    /\ UNCHANGED <<index_documents, task, archive, kills>>

\* one turn of "for doc in batch": process_document (mark_in_progress, then
\* mark_completed or mark_failed with retry), the count, and the periodic
\* checkpoint
resume_process ==
    /\ sched.pc = "process"
    /\ sched.batch # <<>>
    /\ \E success \in BOOLEAN :
          LET id == Head(sched.batch)
              claimed == mark_in_progress(index_documents, id, now)
              settled == IF success
                         THEN mark_completed(claimed, id, GcsUrl(id), now)
                         ELSE mark_failed(claimed, id, 40, TRUE, now)
              count == sched.document_count + 1
          IN  /\ index_documents' = settled
              /\ archive' =
                    IF count % CheckpointInterval = 0
                    THEN archive \cup
                           { save_checkpoint("stage-3-large",
                                             sched.last_fetched_id, settled, now) }
                    ELSE archive
              /\ sched' = [sched EXCEPT
                             !.document_count = count,
                             !.batch = Tail(sched.batch),
                             !.pc = IF Tail(sched.batch) = <<>>
                                    THEN "fetch" ELSE @]
    /\ now' = now + 1
    /\ UNCHANGED <<task, kills>>

\* after the loop: the final checkpoint, then run() returns
resume_final ==
    /\ sched.pc = "final"
    /\ archive' = archive \cup
                    { save_checkpoint("stage-3-large", sched.last_fetched_id,
                                      index_documents, now) }
    /\ sched' = [sched EXCEPT !.pc = "exited"]
    /\ now' = now + 1
    /\ UNCHANGED <<index_documents, task, kills>>

\* KeyboardInterrupt between two documents: run() is left without the
\* final checkpoint
resume_interrupt ==
    /\ sched.pc \in {"fetch", "process"}
    /\ sched' = [sched EXCEPT !.pc = "exited"]
    /\ now' = now + 1
    /\ UNCHANGED <<index_documents, task, archive, kills>>

ResumeNext ==
    \/ resume_run_start
    \/ resume_fetch
    \/ resume_process
    \/ resume_final
    \/ resume_interrupt

SpecResume == ResumeInit /\ [][ResumeNext]_vars

\* C31: the first batch a run started with --resume fetches is a batch a
\* fresh run (no cursor loaded) fetches from the same table: the loaded
\* checkpoint excludes no pending row of the stage.
C31_ResumeSelectsWhatFreshSelects ==
    ( sched.resume /\ sched.fetches > 0 ) =>
       sched.first_batch \in
          FetchBatches(STAGE_CONFIGS["stage-3-large"], sched.first_table,
                       NULL, NULL, ResumeBatch, now)


(* ---------------------------------------------------------------------- *)
(* Related-items parser: parse_related_item on strings, a string being a   *)
(* sequence of characters                                                  *)
(* ---------------------------------------------------------------------- *)
\* pieces joined into one raw string
ParsePieces == 3

IsDigit(c) == c \in {"0", "1", "2"}

\* characters \s matches and str.strip removes
IsSpace(c) == c \in {" ", "\t", "\n"}

DigitValue(c) == CASE c = "0" -> 0 [] c = "1" -> 1 [] c = "2" -> 2

\* int(text) of a run of digits
RECURSIVE int(_)
int(text) ==
    IF text = <<>> THEN 0
    ELSE int(SubSeq(text, 1, Len(text) - 1)) * 10 + DigitValue(text[Len(text)])

\* str.strip()
RECURSIVE strip(_)
strip(text) ==
    IF text = <<>> THEN <<>>
    ELSE IF IsSpace(Head(text)) THEN strip(Tail(text))
    ELSE IF IsSpace(text[Len(text)]) THEN strip(SubSeq(text, 1, Len(text) - 1))
    ELSE text

\* str.split('\n')
RECURSIVE split(_)
split(text) ==
    IF \A i \in 1..Len(text) : text[i] # "\n" THEN <<text>>
    ELSE LET i == CHOOSE i \in 1..Len(text) :
                     text[i] = "\n" /\ \A j \in 1..(i - 1) : text[j] # "\n"
         IN  <<SubSeq(text, 1, i - 1)>> \o split(SubSeq(text, i + 1, Len(text)))

\* where a greedy \d+ or \d* starting at position i stops (the position
\* after the run)
RECURSIVE DigitRunEnd(_, _)
DigitRunEnd(line, i) ==
    IF i <= Len(line) /\ IsDigit(line[i]) THEN DigitRunEnd(line, i + 1) ELSE i

\* where a greedy \s+ or \s* starting at position i stops
RECURSIVE SpaceRunEnd(_, _)
SpaceRunEnd(line, i) ==
    IF i <= Len(line) /\ IsSpace(line[i]) THEN SpaceRunEnd(line, i + 1) ELSE i

\* RELATED_ITEM_PATTERN.match at position s: (\d+)\s+bk:(\d+)\s*/(\d+). Each
\* greedy run is followed by a character the run cannot hold, so giving
\* characters back never helps. The result is the set holding the match, or
\* the empty set.
PatternMatchAt(line, s) ==
    LET a == DigitRunEnd(line, s)
        b == SpaceRunEnd(line, a)
        c == b + 3
        d == DigitRunEnd(line, c)
        f == SpaceRunEnd(line, d)
        e == DigitRunEnd(line, f + 1)
    IN  IF /\ a > s
           /\ b > a
           /\ c - 1 <= Len(line)
           /\ SubSeq(line, b, c - 1) = <<"b", "k", ":">>
           /\ d > c
           /\ f <= Len(line)
           /\ line[f] = "/"
           /\ e > f + 1
        THEN { [ groups |-> << SubSeq(line, s, a - 1), SubSeq(line, c, d - 1),
                               SubSeq(line, f + 1, e - 1) >>,
                 end |-> e ] }
        ELSE {}

\* RELATED_ITEM_PATTERN.findall(line) scanning from position pos: the
\* leftmost match, then on from its end
RECURSIVE findall(_, _)
findall(line, pos) ==
    IF pos > Len(line) THEN <<>>
    ELSE LET m == PatternMatchAt(line, pos)
         IN  IF m = {} THEN findall(line, pos + 1)
             ELSE LET match == CHOOSE x \in m : TRUE
                  IN  <<match.groups>> \o findall(line, match.end)

\* the placeholders parse_related_item writes: None
ParsedReference(key) ==
    [ instrument_number |-> key[1], book |-> key[2], page |-> key[3],
      exists_in_db |-> "None", target_id |-> NULL ]

\* "for match in matches" with the seen set, over the matches of all lines
RECURSIVE CollectReferences(_, _, _)
CollectReferences(matches, seen, keep_repeats) ==
    IF matches = <<>> THEN <<>>
    ELSE LET match == Head(matches)
             key == << int(match[1]), int(match[2]), int(match[3]) >>
         IN  IF key \notin seen \/ keep_repeats
             THEN <<ParsedReference(key)>>
                     \o CollectReferences(Tail(matches), seen \cup {key},
                                          keep_repeats)
             ELSE CollectReferences(Tail(matches), seen, keep_repeats)

\* the matches of the lines, one line after the other
RECURSIVE MatchesOfLines(_)
MatchesOfLines(lines) ==
    IF lines = <<>> THEN <<>>
    ELSE findall(Head(lines), 1) \o MatchesOfLines(Tail(lines))

\* parse_related_item without the seen set
parse_related_item_keeping_repeats(raw_text) ==
    IF raw_text = <<>> \/ strip(raw_text) = <<>>
    THEN <<>>
    ELSE CollectReferences(MatchesOfLines(split(strip(raw_text))), {}, TRUE)

\* "not raw_text" is the empty string here: process_all_documents selects
\* rows whose raw column is neither NULL nor ''
parse_related_item(raw_text) ==
    IF raw_text = <<>> \/ strip(raw_text) = <<>>
    THEN <<>>
    ELSE CollectReferences(MatchesOfLines(split(strip(raw_text))), {}, FALSE)

\* the raw strings explored: pieces of the column's format, well formed and
\* not, joined by separators
RawPieces ==
    { <<"1", " ", "b", "k", ":", "1", "/", "1">>,
      <<"1", " ", "b", "k", ":", "0", "1", "/", "1">>,
      <<"1", " ", "\t", "b", "k", ":", "1", " ", "/", "1">>,
      <<"2", " ", "b", "k", ":", "1", "/", "1">>,
      <<"1", "2", " ", "b", "k", ":", "2", "/", "1", "0">>,
      <<"1", " ", "b", "k", ":", "1">>,
      <<"b", "k", ":", "1", "/", "1">>,
      <<"1">>,
      <<>> }

RawSeparators == { <<"\n">>, <<" ">>, <<>>, <<"x">>, <<" ", "\n", "\t">> }

RECURSIVE RawTexts(_)
RawTexts(n) ==
    IF n = 1 THEN RawPieces
    ELSE { text \o sep \o piece :
             text \in RawTexts(n - 1), sep \in RawSeparators,
             piece \in RawPieces }

\* task: the raw string; sched.result: what parse_related_item returned
ParseInit ==
    /\ index_documents = <<>>
    /\ now = 0
    /\ task \in RawTexts(ParsePieces)
    /\ sched = [pc |-> "ready", result |-> <<>>]
    /\ archive = {}
    /\ kills = 0

parse_call ==
    /\ sched.pc = "ready"
    /\ sched' = [pc |-> "done", result |-> parse_related_item(task)]
    /\ UNCHANGED <<index_documents, now, task, archive, kills>>

ParseNext == parse_call

SpecParse == ParseInit /\ [][ParseNext]_vars


\* the characters i..j of text are digits, and there is at least one
AllDigits(text, i, j) == i <= j /\ \A k \in i..j : IsDigit(text[k])

\* the characters i..j of text are whitespace (none when j < i)
AllSpaces(text, i, j) == \A k \in i..j : IsSpace(text[k])

\* the number a run of digits denotes
RECURSIVE DecimalValue(_, _, _, _)
DecimalValue(text, i, j, acc) ==
    IF i > j THEN acc
    ELSE DecimalValue(text, i + 1, j, acc * 10 + DigitValue(text[i]))

\* the positions b of s..e where "bk:" stands
LiteralStarts(text, s, e) ==
    { b \in s..(e - 2) :
        text[b] = "b" /\ text[b + 1] = "k" /\ text[b + 2] = ":" }

\* the triples text[s..e] denotes when read as digits, whitespace, "bk:",
\* digits, optional whitespace, "/", digits
TriplesOf(text, s, e) ==
    UNION { UNION { { << DecimalValue(text, s, a, 0),
                         DecimalValue(text, b + 3, d, 0),
                         DecimalValue(text, f + 1, e, 0) >> :
                        a \in { a \in s..(b - 2) :
                                  /\ AllDigits(text, s, a)
                                  /\ AllSpaces(text, a + 1, b - 1) },
                        d \in { d \in (b + 3)..(f - 1) :
                                  /\ AllDigits(text, b + 3, d)
                                  /\ AllSpaces(text, d + 1, f - 1) } } :
                    f \in { f \in (b + 4)..(e - 1) :
                              text[f] = "/" /\ AllDigits(text, f + 1, e) } } :
            b \in LiteralStarts(text, s, e) }

\* the pattern applied globally to text[pos..hi]: the match that starts
\* leftmost and reaches furthest, then the matches after its end
RECURSIVE GlobalMatches(_, _, _)
GlobalMatches(text, pos, hi) ==
    LET spans == { x \in (pos..hi) \X (pos..hi) :
                     /\ IsDigit(text[x[1]]) /\ IsDigit(text[x[2]])
                     /\ TriplesOf(text, x[1], x[2]) # {} }
    IN  IF spans = {} THEN <<>>
        ELSE LET x == CHOOSE x \in spans :
                         \A y \in spans :
                            x[1] < y[1] \/ (x[1] = y[1] /\ x[2] >= y[2])
             IN  << CHOOSE tr \in TriplesOf(text, x[1], x[2]) : TRUE >>
                    \o GlobalMatches(text, x[2] + 1, hi)

\* the matches of the newline-separated lines of text from position lo on
RECURSIVE MatchesByLine(_, _)
MatchesByLine(text, lo) ==
    IF lo > Len(text) THEN <<>>
    ELSE LET breaks == { i \in lo..Len(text) : text[i] = "\n" }
             hi == IF breaks = {} THEN Len(text)
                   ELSE (CHOOSE i \in breaks : \A j \in breaks : i <= j) - 1
         IN  GlobalMatches(text, lo, hi) \o MatchesByLine(text, hi + 2)

\* a sequence without the later repeats of its elements
RECURSIVE FirstOccurrences(_)
FirstOccurrences(seq) ==
    IF seq = <<>> THEN <<>>
    ELSE LET rest == SubSeq(seq, 1, Len(seq) - 1)
             last == seq[Len(seq)]
         IN  IF \E i \in 1..Len(rest) : rest[i] = last
             THEN FirstOccurrences(rest)
             ELSE FirstOccurrences(rest) \o <<last>>

ResultTriples(result) ==
    [ i \in 1..Len(result) |->
        << result[i].instrument_number, result[i].book, result[i].page >> ]

\* C32: parse_related_item returns the distinct (instrument_number, book,
\* page) triples the pattern matches on the newline-separated lines of the
\* raw string, in the order of their first occurrence, later repeats
\* dropped; an empty or whitespace-only string gives the empty list.
C32_ParseYieldsDistinctMatchesInOrder ==
    sched.pc = "done" =>
       /\ ResultTriples(sched.result) = FirstOccurrences(MatchesByLine(task, 1))
       /\ AllSpaces(task, 1, Len(task)) => sched.result = <<>>

\* a raw string of several lines holding three matches, one a repeat, was
\* parsed into two references
C32_Witness ==
    /\ sched.pc = "done"
    /\ Len(sched.result) = 2
    /\ Len(MatchesByLine(task, 1)) = 3
    /\ \E i \in 1..Len(task) : task[i] = "\n"


(* ---------------------------------------------------------------------- *)
(* Related-items parser on the store: process_all_documents,               *)
(* process_batch, cross_reference_batch and enrich_references              *)
(* ---------------------------------------------------------------------- *)
RelatedDocs == 3

\* runs of the parser explored, one after the other
RelatedRuns == 2

\* the --batch-size values explored (1000 by default in the source)
MaxBatchSize == 2

RelatedIds == 1..RelatedDocs

RelatedKeys == { <<1, 1>>, <<1, 2>> }

\* the text of the related-items column: empty, a reference to book 1 page
\* 1, and a reference to book 1 page 1 followed by one to book 2 page 1,
\* which no row has
RelatedTexts ==
    { <<>>,
      <<"1", " ", "b", "k", ":", "1", "/", "1">>,
      <<"1", " ", "b", "k", ":", "0", "1", "/", "1", "\n",
        "2", " ", "b", "k", ":", "2", "/", "1">> }

\* a row after add_columns_if_needed: the imported text in related_items_raw,
\* the JSONB column related_items not written yet; the historic loader
\* imports no related items
RelatedRows ==
    { [ book |-> key[1], page |-> key[2], source |-> source,
        related_items_raw |-> text,
        related_items |-> [written |-> FALSE, refs |-> <<>>],
        updated_at |-> 0 ] :
        key \in RelatedKeys, source \in {"DuProcess", "Historical"},
        text \in RelatedTexts } \
    { row \in [ book : {1}, page : {1, 2}, source : {"Historical"},
                related_items_raw : RelatedTexts \ {<<>>},
                related_items : {[written |-> FALSE, refs |-> <<>>]},
                updated_at : {0} ] : TRUE }

\* WHERE related_items_raw IS NOT NULL AND related_items_raw != ''
WithRelatedItems(t) == { id \in DOMAIN t : t[id].related_items_raw # <<>> }

\* ids in ascending order
RECURSIVE OrderById(_)
OrderById(S) ==
    IF S = {} THEN <<>>
    ELSE LET first == CHOOSE a \in S : \A b \in S : a <= b
         IN  <<first>> \o OrderById(S \ {first})

\* ORDER BY id LIMIT batch_size OFFSET offset
SelectBatch(t, batch_size, offset) ==
    LET ordered == OrderById(WithRelatedItems(t))
    IN  SubSeq(ordered, offset + 1,
               IF offset + batch_size < Len(ordered)
               THEN offset + batch_size ELSE Len(ordered))

\* cross_reference_batch: the lookups the SELECT without ORDER BY can give;
\* of the rows that share a (book, page) the one returned first is kept
cross_reference_batch(t, references) ==
    LET pairs == { <<ref[2], ref[3]>> : ref \in references }
        found == { pair \in pairs :
                     \E id \in DOMAIN t :
                        t[id].book = pair[1] /\ t[id].page = pair[2] }
    IN  { lookup \in [found -> DOMAIN t] :
            \A pair \in found :
               /\ t[lookup[pair]].book = pair[1]
               /\ t[lookup[pair]].page = pair[2] }

\* enrich_references that leaves the placeholders of a reference not found
enrich_references_found_only(references, lookup) ==
    [ i \in 1..Len(references) |->
        LET key == <<references[i].book, references[i].page>>
        IN  IF key \in DOMAIN lookup
            THEN [references[i] EXCEPT !.exists_in_db = "True",
                                       !.target_id = lookup[key]]
            ELSE references[i] ]

enrich_references(references, lookup) ==
    [ i \in 1..Len(references) |->
        LET key == <<references[i].book, references[i].page>>
        IN  IF key \in DOMAIN lookup
            THEN [references[i] EXCEPT !.exists_in_db = "True",
                                       !.target_id = lookup[key]]
            ELSE [references[i] EXCEPT !.exists_in_db = "False",
                                       !.target_id = NULL] ]

\* process_batch: the tables it can leave
process_batch(t, batch, ts) ==
    LET doc_references ==
            [ id \in { batch[i] : i \in 1..Len(batch) } |->
                parse_related_item(t[id].related_items_raw) ]
        all_references ==
            UNION { { << doc_references[id][i].instrument_number,
                         doc_references[id][i].book,
                         doc_references[id][i].page >> :
                        i \in 1..Len(doc_references[id]) } :
                    id \in DOMAIN doc_references }
    IN  { [ id \in DOMAIN t |->
              IF id \in DOMAIN doc_references
              THEN [t[id] EXCEPT
                      !.related_items =
                          [ written |-> TRUE,
                            refs |-> IF doc_references[id] # <<>>
                                     THEN enrich_references(doc_references[id],
                                                            lookup)
                                     ELSE <<>> ],
                      !.updated_at = ts]
              ELSE t[id] ] :
            lookup \in cross_reference_batch(t, all_references) }

\* sched.first: the related_items column as the first run left it
RelatedInit ==
    /\ index_documents \in
          { t \in [RelatedIds -> RelatedRows] :
              \A a, b \in RelatedIds :
                 a # b => <<t[a].book, t[a].page, t[a].source>>
                             # <<t[b].book, t[b].page, t[b].source>> }
    /\ now = 1
    /\ sched = [ pc |-> "idle", runs |-> 0, batch_size |-> 1, offset |-> 0,
                 total |-> 0, first |-> <<>> ]
    /\ task = <<>>
    /\ archive = {}
    /\ kills = 0

Columns(t) == [ id \in DOMAIN t |-> t[id].related_items ]

\* what a finished run records
RunFinished(s, t) ==
    [s EXCEPT !.pc = "done", !.runs = @ + 1,
              !.first = IF s.runs = 0 THEN Columns(t) ELSE @]

\* process_all_documents up to the loop: the count, and the return when
\* there is nothing to process
related_start ==
    /\ sched.pc \in {"idle", "done"}
    /\ sched.runs < RelatedRuns
    /\ \E batch_size \in 1..MaxBatchSize :
          LET total == Cardinality(WithRelatedItems(index_documents))
              started == [sched EXCEPT !.batch_size = batch_size, !.offset = 0,
                                       !.total = total, !.pc = "loop"]
          IN  sched' = IF total = 0
                       THEN RunFinished(started, index_documents)
                       ELSE started
    /\ now' = now + 1
    /\ UNCHANGED <<index_documents, task, archive, kills>>

\* one turn of "while offset < total": fetch the batch, process_batch, move
\* the offset
related_process_batch ==
    /\ sched.pc = "loop"
    /\ LET batch == SelectBatch(index_documents, sched.batch_size, sched.offset)
           offset == sched.offset + sched.batch_size
       IN  \E t \in process_batch(index_documents, batch, now) :
              /\ index_documents' = t
              /\ sched' = IF offset < sched.total
                          THEN [sched EXCEPT !.offset = offset]
                          ELSE RunFinished([sched EXCEPT !.offset = offset], t)
    /\ now' = now + 1
    /\ UNCHANGED <<task, archive, kills>>

RelatedNext ==
    \/ related_start
    \/ related_process_batch

SpecRelated == RelatedInit /\ [][RelatedNext]_vars

\* C33: in every related_items value the parser has written, a reference
\* has exists_in_db true exactly when its target_id is not null and exactly
\* when some index row has its (book, page), and none keeps the
\* placeholder exists_in_db = None.
C33_ExistsIffTargetIffRowExists ==
    \A id \in RelatedIds :
       index_documents[id].related_items.written =>
          \A i \in 1..Len(index_documents[id].related_items.refs) :
             LET ref == index_documents[id].related_items.refs[i]
             IN  /\ ref.exists_in_db \in {"True", "False"}
                 /\ ref.exists_in_db = "True" <=> ref.target_id # NULL
                 /\ ref.exists_in_db = "True" <=>
                       \E other \in RelatedIds :
                          /\ index_documents[other].book = ref.book
                          /\ index_documents[other].page = ref.page

\* a row was written with a reference that was found and one that was not
C33_Witness ==
    \E id \in RelatedIds :
       /\ index_documents[id].related_items.written
       /\ \E i, j \in 1..Len(index_documents[id].related_items.refs) :
             /\ index_documents[id].related_items.refs[i].exists_in_db = "True"
             /\ index_documents[id].related_items.refs[j].exists_in_db = "False"

\* C34: when a second run of the parser has finished, with any batch size,
\* every row's related_items is what the first run wrote, the target_id of
\* a (book, page) shared by several rows included.
C34_SecondRunWritesTheSame ==
    ( sched.pc = "done" /\ sched.runs = 2 ) =>
       Columns(index_documents) = sched.first


\* C35: within one scheduler run no eligible record is starved: when the
\* loop has ended on an empty batch, no row is pending and inside the
\* stage predicate (a row put back to pending by mark_failed during the run
\* included).
C35_LoopEndsOnlyWhenQueueIsEmpty ==
    sched.pc = "final" =>
       \A id \in CheckpointIds :
          ~ WhereClause(STAGE_CONFIGS["stage-3-large"], index_documents, id, NULL)


(* ---------------------------------------------------------------------- *)
(* ThreadSafeStatistics of the parallel downloader: one threading.Lock,    *)
(* used by the scheduler thread in the loop of run() and after it          *)
(* ---------------------------------------------------------------------- *)
\* results the loop of run() records
StatsDocs == 3

\* a frame of the scheduler thread's call stack inside the statistics
\* object; pc: "acquire" (at "with self.lock"), "holding" (inside the with
\* block), "in_call" (inside, waiting for a method it called), "release"
StatsFrame(fn, pc, mismatch) == [fn |-> fn, pc |-> pc, mismatch |-> mismatch]

Top(stack) == stack[Len(stack)]

Pop(stack) == SubSeq(stack, 1, Len(stack) - 1)

SetTop(stack, frame) == [stack EXCEPT ![Len(stack)] = frame]

\* threading.Lock has no owner and no count: acquire blocks while it is held
stats_lock_free(lock) == ~ lock

\* sched.stats: the counters; sched.stack: the call stack
StatsInit ==
    /\ index_documents = <<>>
    /\ now = 0
    /\ sched = [ pc |-> "loop", lock |-> FALSE, stack |-> <<>>, recorded |-> 0,
                 stats |-> [ total_attempted |-> 0, total_completed |-> 0,
                             total_failed |-> 0, total_mismatches |-> 0 ],
                 success_rate |-> NULL ]
    /\ task = <<>>
    /\ archive = {}
    /\ kills = 0

\* the as_completed loop calls record_success or record_failure
stats_record_call ==
    /\ sched.pc = "loop"
    /\ sched.stack = <<>>
    /\ sched.recorded < StatsDocs
    /\ \E success \in BOOLEAN, book_page_mismatch \in BOOLEAN :
          sched' = [sched EXCEPT
                      !.stack = << StatsFrame(IF success THEN "record_success"
                                              ELSE "record_failure",
                                              "acquire",
                                              success /\ book_page_mismatch) >>]
    /\ UNCHANGED <<index_documents, now, task, archive, kills>>

\* fetch_next_batch returned an empty batch: run() calls print_summary,
\* which calls to_dict first
stats_print_summary_call ==
    /\ sched.pc = "loop"
    /\ sched.stack = <<>>
    /\ sched' = [sched EXCEPT
                   !.pc = "summary",
                   !.stack = << StatsFrame("print_summary", "in_call", FALSE),
                                StatsFrame("to_dict", "acquire", FALSE) >>]
    /\ UNCHANGED <<index_documents, now, task, archive, kills>>

\* "with self.lock" is entered
stats_acquire ==
    /\ sched.stack # <<>>
    /\ Top(sched.stack).pc = "acquire"
    /\ stats_lock_free(sched.lock)
    /\ sched' = [sched EXCEPT
                   !.lock = TRUE,
                   !.stack = SetTop(sched.stack,
                                    [Top(sched.stack) EXCEPT !.pc = "holding"])]
    /\ UNCHANGED <<index_documents, now, task, archive, kills>>

\* the body of the with block: the counters of record_success and
\* record_failure, the division of get_success_rate, and in to_dict the
\* call self.get_success_rate() made while the lock is held
stats_body ==
    /\ sched.stack # <<>>
    /\ Top(sched.stack).pc = "holding"
    /\ LET frame == Top(sched.stack)
           done == SetTop(sched.stack, [frame EXCEPT !.pc = "release"])
       IN  CASE frame.fn = "record_success" ->
                  sched' = [sched EXCEPT
                              !.stack = done,
                              !.stats.total_attempted = @ + 1,
                              !.stats.total_completed = @ + 1,
                              !.stats.total_mismatches =
                                  IF frame.mismatch THEN @ + 1 ELSE @]
             [] frame.fn = "record_failure" ->
                  sched' = [sched EXCEPT
                              !.stack = done,
                              !.stats.total_attempted = @ + 1,
                              !.stats.total_failed = @ + 1]
             [] frame.fn = "get_success_rate" ->
                  sched' = [sched EXCEPT
                              !.stack = done,
                              !.success_rate =
                                  IF sched.stats.total_attempted = 0 THEN 0
                                  ELSE (100 * sched.stats.total_completed)
                                          \div sched.stats.total_attempted]
             [] frame.fn = "to_dict" ->
                  sched' = [sched EXCEPT
                              !.stack =
                                  SetTop(sched.stack,
                                         [frame EXCEPT !.pc = "in_call"])
                                  \o << StatsFrame("get_success_rate",
                                                   "acquire", FALSE) >>]
    /\ UNCHANGED <<index_documents, now, task, archive, kills>>

\* the with block is left and the method returns: to its caller inside the
\* statistics object, to the loop, or, from to_dict, to print_summary,
\* which prints and returns to run(), which returns
stats_release ==
    /\ sched.stack # <<>>
    /\ Top(sched.stack).pc = "release"
    /\ LET frame == Top(sched.stack)
           rest == Pop(sched.stack)
       IN  sched' = [sched EXCEPT
                       !.lock = FALSE,
                       !.stack =
                           IF frame.fn = "to_dict" THEN <<>>
                           ELSE IF rest = <<>> THEN <<>>
                           ELSE SetTop(rest, [Top(rest) EXCEPT !.pc = "release"]),
                       !.recorded =
                           IF frame.fn \in {"record_success", "record_failure"}
                           THEN @ + 1 ELSE @,
                       !.pc = IF frame.fn = "to_dict" THEN "returned" ELSE @]
    /\ UNCHANGED <<index_documents, now, task, archive, kills>>

StatsNext ==
    \/ stats_record_call
    \/ stats_print_summary_call
    \/ stats_acquire
    \/ stats_body
    \/ stats_release

SpecStats == StatsInit /\ [][StatsNext]_vars

\* C36: no statistics operation blocks forever: the scheduler thread never
\* waits at "with self.lock" for the mutex while a frame further down its
\* own call stack holds it, so print_summary can return and run() with it.
C36_StatisticsNeverSelfBlocks ==
    ~ ( /\ sched.stack # <<>>
        /\ Top(sched.stack).pc = "acquire"
        /\ \E i \in 1..(Len(sched.stack) - 1) :
              sched.stack[i].pc \in {"holding", "in_call"}
                 /\ sched.stack[i].fn # "print_summary" )


(* ---------------------------------------------------------------------- *)
(* Remote paths of the rows of one table: the cleaning pass, then the      *)
(* records completed one after the other                                   *)
(* ---------------------------------------------------------------------- *)
CollideDocs == 2

CollideIds == 1..CollideDocs

\* a Historical-range and a Mid-range (book, page)
CollideKeys == { <<100, 5>>, <<238, 5>> }

\* document_type: absent, and one type in two spellings
CollideDocumentTypes ==
    { PyNone, PyStr(<<"D", "E", "E", "D">>), PyStr(<<"d", "e", "e", "d">>) }

CollideRow(key, source, document_type) ==
    CleanRow(key, source, <<1, 1>>, "pending")
       @@ [ document_type |-> document_type, instrument_number |-> PyNone,
            instrument_type_parsed |-> PyNone ]

\* gcs_path = f"documents/{folder_prefix}/{doc_type}/{book:04d}-{page:04d}.pdf"
GcsPath(doc) ==
    LET built == parallel_remote_path(doc)
    IN  << built.folder_prefix, built.doc_type, built.book, built.page >>

\* archive: the objects of the bucket, [path, id]: the object at path holds
\* the PDF of row id
CollideInit ==
    /\ index_documents \in
          { t \in [CollideIds ->
                     { CollideRow(key, source, document_type) :
                         key \in CollideKeys,
                         source \in CleanSources,
                         document_type \in CollideDocumentTypes }] :
              \A a, b \in CollideIds :
                 a # b => <<t[a].book, t[a].page, t[a].source>>
                             # <<t[b].book, t[b].page, t[b].source>> }
    /\ now = 1
    /\ sched = [pc |-> "clean"]
    /\ task = <<>>
    /\ archive = {}
    /\ kills = 0

\* clean_index_data.py main: the four steps of the cleaning pass
collide_clean ==
    /\ sched.pc = "clean"
    /\ index_documents' \in clean_pass(index_documents, now)
    /\ sched' = [pc |-> "download"]
    /\ now' = now + 1
    /\ UNCHANGED <<task, archive, kills>>

\* process_document on a pending row: mark_in_progress, the download, the
\* upload to the row's gcs_path (an object already there is replaced), and
\* mark_completed
collide_complete(id) ==
    /\ sched.pc = "download"
    /\ index_documents[id].download_status = "pending"
    /\ LET path == GcsPath(index_documents[id])
       IN  archive' = { blob \in archive : blob.path # path }
                         \cup { [path |-> path, id |-> id] }
    /\ index_documents' =
          mark_completed(mark_in_progress(index_documents, id, now), id,
                         index_documents[id].book * 10000
                            + index_documents[id].page, now)
    /\ now' = now + 1
    /\ UNCHANGED <<sched, task, kills>>

CollideNext ==
    \/ collide_clean
    \/ \E id \in CollideIds : collide_complete(id)

SpecCollide == CollideInit /\ [][CollideNext]_vars

\* C37: after the cleaning pass two distinct rows that are not skipped
\* never have the same remote object path, rows that share (book, page)
\* under different sources included, and the object at the path of a
\* completed row holds that row's PDF.
C37_DistinctRowsDistinctPaths ==
    sched.pc = "download" =>
       /\ \A a, b \in CollideIds :
             ( /\ a # b
               /\ index_documents[a].download_status # "skipped"
               /\ index_documents[b].download_status # "skipped" )
                => GcsPath(index_documents[a]) # GcsPath(index_documents[b])
       /\ \A id \in CollideIds :
             index_documents[id].download_status = "completed" =>
                [path |-> GcsPath(index_documents[id]), id |-> id] \in archive


\* C38: a download run with --dry-run leaves the index store unchanged: no
\* step changes a row's download_status, download_attempts or gcs_path, so
\* every record that was pending stays pending with a null gcs_path.
C38_DryRunLeavesStoreUnchanged ==
    [][ sched.dry_run =>
          \A id \in ValidateIds :
             /\ RowAfter(id).download_status = Row(id).download_status
             /\ RowAfter(id).download_attempts = Row(id).download_attempts
             /\ RowAfter(id).gcs_path = Row(id).gcs_path ]_vars


(* ---------------------------------------------------------------------- *)
(* Priorities the cleaning pass assigns, on rows as the loaders leave them *)
(* ---------------------------------------------------------------------- *)
\* runs of the cleaning pass explored, one after the other
PriorityRuns == 2

\* (book, page): absent book, a Historical book, the first and the last Mid
\* book, the first New book
PriorityKeys ==
    { <<NULL, 1>>, <<100, 1>>, <<238, 1>>, <<3971, 1>>, <<3972, 1>> }

\* the value of DocumentType.LAST_WILL_AND_TESTAMENT
LAST_WILL_AND_TESTAMENT ==
    <<"L", "A", "S", "T", "_", "W", "I", "L", "L", "_", "A", "N", "D", "_",
      "T", "E", "S", "T", "A", "M", "E", "N", "T">>

\* (instrument_type_parsed, document_type) as parse_instrument_type gives
\* them (WILL, LAST WILL AND TESTAM, DEED), rows without a type, and a
\* lower-case spelling
PriorityTypes ==
    { <<PyNone, PyNone>>,
      <<PyStr(<<"W", "I", "L", "L">>), PyStr(LAST_WILL_AND_TESTAMENT)>>,
      <<PyStr(<<"L", "A", "S", "T", " ", "W", "I", "L", "L", " ", "A", "N",
                "D", " ", "T", "E", "S", "T", "A", "M">>),
        PyStr(LAST_WILL_AND_TESTAMENT)>>,
      <<PyStr(<<"w", "i", "l", "l">>), PyNone>>,
      <<PyNone, PyStr(LAST_WILL_AND_TESTAMENT)>>,
      <<PyStr(<<"D", "E", "E", "D">>), PyStr(<<"D", "E", "E", "D">>)>> }

FoldChar(c) ==
    CASE c = "w" -> "W"
      [] c = "i" -> "I"
      [] c = "l" -> "L"
      [] OTHER -> c

\* value ILIKE '%pattern%': not true for NULL
ILikeContains(value, pattern) ==
    /\ value.type = "str"
    /\ \E i \in 1..(Len(value.chars) - Len(pattern) + 1) :
          \A k \in 1..Len(pattern) : FoldChar(value.chars[i + k - 1]) = pattern[k]

\* the condition of the first UPDATE of assign_download_priorities
WillCondition(instrument_type_parsed, document_type) ==
    \/ ILikeContains(instrument_type_parsed, <<"W", "I", "L", "L">>)
    \/ ILikeContains(instrument_type_parsed,
                     <<"T", "E", "S", "T", "A", "M", "E", "N", "T">>)
    \/ document_type = PyStr(LAST_WILL_AND_TESTAMENT)

\* a row as a loader leaves it: no priority
PriorityRow(key, status, types) ==
    [ CleanRow(key, "DuProcess", <<1, 1>>, status) EXCEPT
        !.will = WillCondition(types[1], types[2]) ]
       @@ [ instrument_type_parsed |-> types[1], document_type |-> types[2] ]

PriorityInit ==
    /\ index_documents \in
          { [id \in CleanIds |-> PriorityRow(k[id], st[id], ty[id])] :
              k \in [CleanIds -> PriorityKeys],
              st \in [CleanIds -> CleanStatuses],
              ty \in [CleanIds -> PriorityTypes] }
    /\ now = 1
    /\ sched = [pc |-> "loaded", runs |-> 0]
    /\ task = <<>>
    /\ archive = {}
    /\ kills = 0

\* clean_index_data.py main: the four steps of the cleaning pass
priority_clean ==
    /\ sched.runs < PriorityRuns
    /\ index_documents' \in clean_pass(index_documents, now)
    /\ sched' = [pc |-> "cleaned", runs |-> sched.runs + 1]
    /\ now' = now + 1
    /\ UNCHANGED <<task, archive, kills>>

PriorityNext == priority_clean

SpecPriority == PriorityInit /\ [][PriorityNext]_vars

\* the row is a will or testament by its parsed type or its document type
IndicatesWill(row) ==
    \/ row.instrument_type_parsed.type = "str"
         /\ row.instrument_type_parsed.chars
               \in { <<"W", "I", "L", "L">>, <<"w", "i", "l", "l">>,
                     <<"L", "A", "S", "T", " ", "W", "I", "L", "L", " ", "A",
                       "N", "D", " ", "T", "E", "S", "T", "A", "M">> }
    \/ row.document_type.type = "str"
         /\ row.document_type.chars = LAST_WILL_AND_TESTAMENT

\* C39: after the cleaning pass every pending row has the priority of the
\* first rule that matches: 1 for a will or testament, else 2 for book <
\* 238, else 3 for 238 <= book < 3972, else 4; none has a null priority.
C39_PriorityByFirstMatch ==
    sched.pc = "cleaned" =>
       \A id \in CleanIds :
          Row(id).download_status = "pending" =>
             /\ Row(id).download_priority # NULL
             /\ Row(id).download_priority =
                   IF IndicatesWill(Row(id)) THEN 1
                   ELSE IF Row(id).book # NULL /\ Row(id).book < 238 THEN 2
                   ELSE IF Row(id).book # NULL /\ Row(id).book >= 238
                           /\ Row(id).book < 3972 THEN 3
                   ELSE 4

\* after the pass a pending will of a Mid book has priority 1 next to a
\* pending deed of a Historical book with priority 2
C39_Witness ==
    /\ sched.pc = "cleaned"
    /\ \E a, b \in CleanIds :
          /\ Row(a).download_status = "pending" /\ Row(a).book = 3971
          /\ IndicatesWill(Row(a)) /\ Row(a).download_priority = 1
          /\ Row(b).download_status = "pending" /\ Row(b).book = 100
          /\ ~ IndicatesWill(Row(b)) /\ Row(b).download_priority = 2

====
